---- MODULE Spec2Model ----
(***************************************************************************)
(* Model of the group reconciliation engine of osm-email-to-gsuite:        *)
(* GoogleGroupsManager (src/src/gsuite_sync/groups_api.py) reconciling one *)
(* Google group against a target set computed from roster records         *)
(* (src/osm_api/models.py).  The directory service is the environment.     *)
(*                                                                         *)
(* Python strings are sequences of one-character strings, so that lower(), *)
(* replace(), the email regular expression and sorted() are computed, not  *)
(* assumed.  None and the empty string (both falsy) are the empty sequence.*)
(***************************************************************************)
EXTENDS Integers, Sequences, FiniteSets, TLC

\* ------------------------------------------------------------------ bounds
\* Number of members the directory returns per page of members().list.
PageSize == 2

\* Number of failing requests (directory, roster source or log store) the
\* environment injects into one batch run.
MaxFaults == 1

\* Number of entries the concurrent writers of the log store write.
MaxLogWrites == 2

\* -------------------------------------------------------------- characters
UPPER == <<"A","B","C","D","E","F","G","H","I","J","K","L","M",
           "N","O","P","Q","R","S","T","U","V","W","X","Y","Z">>
LOWER == <<"a","b","c","d","e","f","g","h","i","j","k","l","m",
           "n","o","p","q","r","s","t","u","v","w","x","y","z">>
DIGIT == <<"0","1","2","3","4","5","6","7","8","9">>

\* The characters of the model in code-point order (the order of sorted()).
ASCII == <<"+", "-", ".">> \o DIGIT \o <<"@">> \o UPPER \o <<"_">> \o LOWER

Range(s) == {s[i] : i \in DOMAIN s}

\* ord(c), up to the characters that are not in the model.
CodePoint == [c \in Range(ASCII) |-> CHOOSE i \in DOMAIN ASCII : ASCII[i] = c]

Ord(c) == CodePoint[c]

\* str.lower() on one character.
LowerCase ==
    [c \in Range(ASCII) |->
        IF \E i \in DOMAIN UPPER : UPPER[i] = c
        THEN LOWER[CHOOSE i \in DOMAIN UPPER : UPPER[i] = c]
        ELSE c]

LowerChar(c) == LowerCase[c]

\* str.lower()
lower(s) == [i \in DOMAIN s |-> LowerChar(s[i])]

\* str.replace(old, new): every non-overlapping occurrence, left to right.
RECURSIVE replace(_, _, _)
replace(s, old, new) ==
    IF Len(s) < Len(old) THEN s
    ELSE IF SubSeq(s, 1, Len(old)) = old
         THEN new \o replace(SubSeq(s, Len(old) + 1, Len(s)), old, new)
         ELSE <<Head(s)>> \o replace(Tail(s), old, new)

\* Python's ordering of str: lexicographic by code point.
RECURSIVE StrLess(_, _)
StrLess(s, t) ==
    IF t = <<>> THEN FALSE
    ELSE IF s = <<>> THEN TRUE
    ELSE IF Head(s) = Head(t) THEN StrLess(Tail(s), Tail(t))
    ELSE Ord(Head(s)) < Ord(Head(t))

\* sorted(S) for a collection without duplicates.
RECURSIVE sorted(_)
sorted(S) ==
    IF S = {} THEN <<>>
    ELSE LET least == CHOOSE x \in S : \A y \in S \ {x} : StrLess(x, y)
         IN  <<least>> \o sorted(S \ {least})

\* ------------------------------------------------------------- the strings
AT_GOOGLEMAIL == <<"@","g","o","o","g","l","e","m","a","i","l",".","c","o","m">>
AT_GMAIL      == <<"@","g","m","a","i","l",".","c","o","m">>
AT_X          == <<"@","x",".","c","o","m">>

None == <<>>

a_x == <<"a">> \o AT_X
b_x == <<"b">> \o AT_X
c_x == <<"c">> \o AT_X
m_gmail      == <<"m">> \o AT_GMAIL
M_gmail      == <<"M">> \o AT_GMAIL
m_googlemail == <<"m">> \o AT_GOOGLEMAIL
M_GoogleMail == <<"M","@","G","o","o","g","l","e","M","a","i","l",".","c","o","m">>
not_an_email == <<"n","o","t","-","a","n","-","e","m","a","i","l">>

\* -------------------------------------------------- src/osm_api/models.py
LocalChars  == Range(LOWER) \cup Range(UPPER) \cup Range(DIGIT) \cup {"_", ".", "+", "-"}
DomainChars == Range(LOWER) \cup Range(UPPER) \cup Range(DIGIT) \cup {"-"}
TldChars    == Range(LOWER) \cup Range(UPPER) \cup Range(DIGIT) \cup {"-", "."}

\* EMAIL_REGEX.match(s): ^[a-zA-Z0-9_.+-]+@[a-zA-Z0-9-]+\.[a-zA-Z0-9-.]+$
EMAIL_REGEX_match(s) ==
    \E i \in DOMAIN s : \E j \in DOMAIN s :
        /\ 1 < i /\ i + 1 < j /\ j < Len(s)
        /\ s[i] = "@" /\ s[j] = "."
        /\ \A k \in 1..(i - 1) : s[k] \in LocalChars
        /\ \A k \in (i + 1)..(j - 1) : s[k] \in DomainChars
        /\ \A k \in (j + 1)..Len(s) : s[k] \in TldChars

\* get_valid_emails keeping every field that is filled in.
Contact_get_valid_emails_NoShapeCheck(contact) ==
    LET one(email) == IF email # None THEN <<lower(email)>> ELSE <<>>
    IN  one(contact.email_1) \o one(contact.email_2)

\* Contact.get_valid_emails: the list of the contact's well-formed addresses,
\* lowercased.
Contact_get_valid_emails(contact) ==
    LET one(email) == IF email # None /\ EMAIL_REGEX_match(email)
                      THEN <<lower(email)>> ELSE <<>>
    IN  one(contact.email_1) \o one(contact.email_2)

\* Member.get_contact_emails: the member's own well-formed addresses and
\* those of every contact, lowercased, @googlemail.com rewritten to @gmail.com.
RECURSIVE ContactsEmails(_)
ContactsEmails(contacts) ==
    IF contacts = <<>> THEN <<>>
    ELSE LET emails == Contact_get_valid_emails(Head(contacts))
         IN  [i \in DOMAIN emails |-> replace(emails[i], AT_GOOGLEMAIL, AT_GMAIL)]
             \o ContactsEmails(Tail(contacts))

Member_get_contact_emails_NoAlias(member) ==
    LET own(member_email) ==
            IF member_email # None /\ EMAIL_REGEX_match(lower(member_email))
            THEN <<lower(member_email)>>
            ELSE <<>>
    IN  own(member.member_email_1) \o own(member.member_email_2)
        \o ContactsEmails(member.contacts)

Member_get_contact_emails(member) ==
    LET own(member_email) ==
            IF member_email # None /\ EMAIL_REGEX_match(lower(member_email))
            THEN <<replace(lower(member_email), AT_GOOGLEMAIL, AT_GMAIL)>>
            ELSE <<>>
    IN  own(member.member_email_1) \o own(member.member_email_2)
        \o ContactsEmails(member.contacts)

\* datetime.date values are records [year, month, day].
Date(y, m, d) == [year |-> y, month |-> m, day |-> d]

IsLeapYear(y) == (y % 4 = 0 /\ y % 100 # 0) \/ y % 400 = 0

DaysInMonth(y, m) ==
    IF m = 2 THEN (IF IsLeapYear(y) THEN 29 ELSE 28)
    ELSE IF m \in {4, 6, 9, 11} THEN 30 ELSE 31

\* The calendar day after d.
Tomorrow(d) ==
    IF d.day < DaysInMonth(d.year, d.month) THEN Date(d.year, d.month, d.day + 1)
    ELSE IF d.month < 12 THEN Date(d.year, d.month + 1, 1)
    ELSE Date(d.year + 1, 1, 1)

\* (m1, d1) < (m2, d2), Python's comparison of tuples.
TupleLess(m1, d1, m2, d2) == m1 < m2 \/ (m1 = m2 /\ d1 < d2)

Member_age_at_date_BirthdayNotCounted(member, reference_date) ==
    reference_date.year - member.date_of_birth.year
        - (IF ~TupleLess(member.date_of_birth.month, member.date_of_birth.day,
                         reference_date.month, reference_date.day)
           THEN 1 ELSE 0)

\* Member.age_at_date
Member_age_at_date(member, reference_date) ==
    reference_date.year - member.date_of_birth.year
        - (IF TupleLess(reference_date.month, reference_date.day,
                        member.date_of_birth.month, member.date_of_birth.day)
           THEN 1 ELSE 0)

\* Member.age_today, with date.today() handed in.
Member_age_today(member, today_date) == Member_age_at_date(member, today_date)

LEADERS_PATROL       == "Leaders"
YOUNG_LEADERS_PATROL == "Young Leaders (YLs)"

\* Member.is_leader
Member_is_leader(member) == member.patrol \in {LEADERS_PATROL, YOUNG_LEADERS_PATROL}

Member_is_adult_leader_Over18(member, today_date) ==
    Member_is_leader(member) /\ Member_age_today(member, today_date) > 18

\* Member.is_adult_leader
Member_is_adult_leader(member, today_date) ==
    Member_is_leader(member) /\ Member_age_today(member, today_date) >= 18

Member_is_young_leader_AnyPatrol(member, today_date) ==
    Member_age_today(member, today_date) < 18

\* Member.is_young_leader
Member_is_young_leader(member, today_date) ==
    Member_is_leader(member) /\ Member_age_today(member, today_date) < 18

\* emails.update(member.get_contact_emails()) over the selected members.
EmailsOf(selected) ==
    UNION {Range(Member_get_contact_emails(member)) : member \in selected}

\* Section.get_leaders_emails
Section_get_leaders_emails(section_members, today_date) ==
    EmailsOf({section_members[i] : i \in
        {k \in DOMAIN section_members :
            Member_is_adult_leader(section_members[k], today_date)}})

\* Section.get_young_leaders_emails
Section_get_young_leaders_emails(section_members, today_date) ==
    EmailsOf({section_members[i] : i \in
        {k \in DOMAIN section_members :
            Member_is_young_leader(section_members[k], today_date)}})

\* Section.get_parents_emails
Section_get_parents_emails(section_members, today_date) ==
    EmailsOf({section_members[i] : i \in
        {k \in DOMAIN section_members : ~Member_is_leader(section_members[k])}})

\* Section.get_group_name: email_prefix followed by the group type.
Section_get_group_name(section, group_type) == section.email_prefix \o group_type

\* ------------------------------------------------- the directory service
\* Raw forms in which the directory may hold a member address.
DirectoryAddresses == {a_x, b_x, c_x, m_gmail, M_gmail, m_googlemail, M_GoogleMail}

\* Raw values the email fields of a roster record may carry: the member's
\* own two fields, and the two fields of a contact.
OwnEmails     == {None, a_x, M_GoogleMail, m_googlemail}
ContactEmails == {None, b_x, c_x, M_GoogleMail, not_an_email}

\* The account an address denotes for the directory: letter case is not
\* significant and the host googlemail.com is an alias of gmail.com.
DirCanon(s) ==
    LET l  == lower(s)
        at == CHOOSE i \in DOMAIN l : l[i] = "@"
    IN  IF SubSeq(l, at, Len(l)) = AT_GOOGLEMAIL
        THEN SubSeq(l, 1, at - 1) \o AT_GMAIL
        ELSE l

\* A group holds at most one entry per account.
ConsistentMembership(dir) ==
    \A r1 \in dir : \A r2 \in dir : DirCanon(r1) = DirCanon(r2) => r1 = r2

Faults == {"none", "http", "transport"}

OK == [exc |-> "none", status |-> 200]
HttpError(status) == [exc |-> "HttpError", status |-> status]
TransportError == [exc |-> "TransportError", status |-> 0]

FaultResponse(fault) == IF fault = "http" THEN HttpError(503) ELSE TransportError

\* service.members().list(groupKey, pageToken).execute(): one page of the
\* listing, in the directory's own order; a token is the index of the next
\* page, 0 standing for no token.
members_list(dir, exists, token, fault) ==
    IF fault # "none"
    THEN [resp |-> FaultResponse(fault), members |-> <<>>, nextPageToken |-> 0]
    ELSE IF ~exists
    THEN [resp |-> HttpError(404), members |-> <<>>, nextPageToken |-> 0]
    ELSE LET all   == sorted(dir)
             first == token * PageSize + 1
             last  == IF (token + 1) * PageSize < Len(all)
                      THEN (token + 1) * PageSize ELSE Len(all)
         IN  [resp |-> OK,
              members |-> SubSeq(all, first, last),
              nextPageToken |-> IF last < Len(all) THEN token + 1 ELSE 0]

\* service.members().insert(groupKey, body={'email': email}).execute();
\* stored is the form in which the directory keeps the new member.
members_insert(dir, exists, email, fault, stored) ==
    IF fault # "none" THEN [resp |-> FaultResponse(fault), directory |-> dir]
    ELSE IF ~exists THEN [resp |-> HttpError(404), directory |-> dir]
    ELSE IF \E r \in dir : DirCanon(r) = DirCanon(email)
    THEN [resp |-> HttpError(409), directory |-> dir]
    ELSE [resp |-> OK, directory |-> dir \cup {stored}]

\* service.members().delete(groupKey, memberKey=email).execute()
members_delete(dir, exists, email, fault) ==
    IF fault # "none" THEN [resp |-> FaultResponse(fault), directory |-> dir]
    ELSE IF ~exists THEN [resp |-> HttpError(404), directory |-> dir]
    ELSE IF ~(\E r \in dir : DirCanon(r) = DirCanon(email))
    THEN [resp |-> HttpError(404), directory |-> dir]
    ELSE [resp |-> OK,
          directory |-> {r \in dir : DirCanon(r) # DirCanon(email)}]

\* Forms in which the directory may keep an inserted address.
StoredForms(email) ==
    {r \in DirectoryAddresses : DirCanon(r) = DirCanon(email)} \cup {email}

\* ------------------------------- src/src/gsuite_sync/groups_api.py (pure)
NormalizeMember_NoAlias(email) == lower(email)

\* get_group_members, lines 255-259: the addresses of one page, normalized.
NormalizeMember(email) == replace(lower(email), AT_GOOGLEMAIL, AT_GMAIL)

PageEmails(page) == {NormalizeMember(page[i]) : i \in DOMAIN page}

get_group_members_step_SwallowsErrors(members, r) ==
    IF r.resp.exc = "none"
    THEN LET collected == members \cup PageEmails(r.members)
         IN  IF r.nextPageToken # 0
             THEN [next |-> "more", members |-> collected,
                   page_token |-> r.nextPageToken]
             ELSE [next |-> "return", members |-> collected, page_token |-> 0]
    ELSE [next |-> "return", members |-> {}, page_token |-> 0]

\* The paging loop keeping the addresses of the latest page only.
get_group_members_step_DropsPages(members, r) ==
    IF r.resp.exc = "none"
    THEN LET collected == PageEmails(r.members)
         IN  IF r.nextPageToken # 0
             THEN [next |-> "more", members |-> collected,
                   page_token |-> r.nextPageToken]
             ELSE [next |-> "return", members |-> collected, page_token |-> 0]
    ELSE IF r.resp.exc = "HttpError" /\ r.resp.status = 404
    THEN [next |-> "return", members |-> {}, page_token |-> 0]
    ELSE [next |-> "raise", members |-> members, page_token |-> 0]

\* One iteration of the paging loop of get_group_members on the response r:
\* "more" (loop again), "return" (the value is members) or "raise".
get_group_members_step(members, r) ==
    IF r.resp.exc = "none"
    THEN LET collected == members \cup PageEmails(r.members)
         IN  IF r.nextPageToken # 0
             THEN [next |-> "more", members |-> collected,
                   page_token |-> r.nextPageToken]
             ELSE [next |-> "return", members |-> collected, page_token |-> 0]
    ELSE IF r.resp.exc = "HttpError" /\ r.resp.status = 404
    THEN [next |-> "return", members |-> {}, page_token |-> 0]
    ELSE [next |-> "raise", members |-> members, page_token |-> 0]

\* get_group_members run to completion against a directory that answers
\* every page request.
RECURSIVE ReadAllPages(_, _, _, _)
ReadAllPages(dir, exists, token, members) ==
    LET s == get_group_members_step(members, members_list(dir, exists, token, "none"))
    IN  IF s.next = "more"
        THEN ReadAllPages(dir, exists, s.page_token, s.members)
        ELSE s.members

get_group_members(dir, exists) == ReadAllPages(dir, exists, 0, {})

\* What add_member and remove_member hand back: ret is the returned bool
\* ("raised" when an exception leaves the method), called tells whether a
\* request went to the directory, printed whether the error line was printed.
Outcome(ret, called, printed, r) ==
    [ret |-> ret, called |-> called, printed |-> printed,
     resp |-> r.resp, directory |-> r.directory]

add_member_try_409Fails(dir, exists, email, fault, stored) ==
    LET r == members_insert(dir, exists, email, fault, stored)
    IN  IF r.resp.exc = "none" THEN Outcome("True", TRUE, FALSE, r)
        ELSE IF r.resp.exc = "HttpError" THEN Outcome("False", TRUE, TRUE, r)
        ELSE Outcome("raised", TRUE, FALSE, r)

\* add_member, lines 289-299: the try block; only HttpError is caught.
add_member_try(dir, exists, email, fault, stored) ==
    LET r == members_insert(dir, exists, email, fault, stored)
    IN  IF r.resp.exc = "none" THEN Outcome("True", TRUE, FALSE, r)
        ELSE IF r.resp.exc = "HttpError"
        THEN IF r.resp.status = 409
             THEN Outcome("True", TRUE, FALSE, r)
             ELSE Outcome("False", TRUE, TRUE, r)
        ELSE Outcome("raised", TRUE, FALSE, r)

add_member_NoDryRunCheck(dry, dir, exists, email, fault, stored) ==
    add_member_try(dir, exists, email, fault, stored)

\* add_member
add_member(dry, dir, exists, email, fault, stored) ==
    IF dry
    THEN Outcome("True", FALSE, FALSE, [resp |-> OK, directory |-> dir])
    ELSE add_member_try(dir, exists, email, fault, stored)

remove_member_try_AnyHttpErrorOk(dir, exists, email, fault) ==
    LET r == members_delete(dir, exists, email, fault)
    IN  IF r.resp.exc \in {"none", "HttpError"} THEN Outcome("True", TRUE, FALSE, r)
        ELSE Outcome("raised", TRUE, FALSE, r)

\* remove_member, lines 316-326: the try block; only HttpError is caught.
remove_member_try(dir, exists, email, fault) ==
    LET r == members_delete(dir, exists, email, fault)
    IN  IF r.resp.exc = "none" THEN Outcome("True", TRUE, FALSE, r)
        ELSE IF r.resp.exc = "HttpError"
        THEN IF r.resp.status = 404
             THEN Outcome("True", TRUE, FALSE, r)
             ELSE Outcome("False", TRUE, TRUE, r)
        ELSE Outcome("raised", TRUE, FALSE, r)

\* remove_member
remove_member(dry, dir, exists, email, fault) ==
    IF dry
    THEN Outcome("True", FALSE, FALSE, [resp |-> OK, directory |-> dir])
    ELSE remove_member_try(dir, exists, email, fault)

ComputeToAdd_IgnoresCurrent(target, current) == target

ComputeToRemove_WholeGroup(target, current) == current

\* sync_group, lines 360-362.
ComputeToAdd(target, current) == target \ current
ComputeToRemove(target, current) == current \ target

GroupEmail == "tomleaders@example.com"

\* sync_group, lines 373-381: the dict returned in dry-run mode.
DryRunResult(target, current, add, remove) ==
    [group_email |-> GroupEmail,
     current_count |-> Cardinality(current),
     target_count |-> Cardinality(target),
     added_count |-> Cardinality(add),
     removed_count |-> Cardinality(remove),
     added_emails |-> sorted(add),
     removed_emails |-> sorted(remove)]

\* sync_group, lines 402-410: the dict returned after the two loops.
LiveResult(target, current, n_added, l_added, n_removed, l_removed) ==
    [group_email |-> GroupEmail,
     current_count |-> Cardinality(current),
     target_count |-> Cardinality(target),
     added_count |-> n_added,
     removed_count |-> n_removed,
     added_emails |-> sorted(Range(l_added)),
     removed_emails |-> sorted(Range(l_removed))]

NoResult == [group_email |-> "-"]
NoCall == [fn |-> "none", email |-> None, called |-> FALSE,
           resp |-> OK, ret |-> "-"]

\* ---------------------------------------------------- the clock and ids
RECURSIVE Pow10(_)
Pow10(k) == IF k = 0 THEN 1 ELSE 10 * Pow10(k - 1)

\* n written with width decimal digits (zero padded): %02d, %06d, %f.
Digits(n, width) ==
    [i \in 1..width |-> DIGIT[((n \div Pow10(width - i)) % 10) + 1]]

\* datetime.utcnow() after t microseconds of the minute the model runs in.
utcnow(t) == [second |-> t \div 1000000, microsecond |-> t % 1000000]

ISO_MINUTE == <<"2","0","2","6","-","0","6","-","1","5","T","1","0",":","0","0",":">>
RUN_MINUTE == <<"2","0","2","6","0","6","1","5","-","1","0","0","0">>

\* datetime.isoformat(): the fraction is left out when microsecond is 0.
isoformat(dt) ==
    ISO_MINUTE \o Digits(dt.second, 2)
        \o (IF dt.microsecond = 0 THEN <<>>
            ELSE <<".">> \o Digits(dt.microsecond, 6))

\* datetime.strftime('%Y%m%d-%H%M%S-%f')
strftime(dt) ==
    RUN_MINUTE \o Digits(dt.second, 2) \o <<"-">> \o Digits(dt.microsecond, 6)

\* random.randint(1000, 9999): the values the model draws.
RandomSuffixes == {1000, 9999}

\* api.py line 95, app.py line 552: the run identifier.
make_sync_run_id(t, suffix) == strftime(utcnow(t)) \o <<"-">> \o Digits(suffix, 4)

\* ------------------------------------------------ src/src/sync_logger.py
SUCCESS == "success"
ERROR   == "error"

leaders       == <<"l","e","a","d","e","r","s">>
young_leaders == <<"y","o","u","n","g","_","l","e","a","d","e","r","s">>
youngleaders  == <<"y","o","u","n","g","l","e","a","d","e","r","s">>
parents       == <<"p","a","r","e","n","t","s">>
JSON_SUFFIX   == <<".","j","s","o","n">>

GroupTypes == <<leaders, young_leaders, parents>>

\* SyncLogEntry built by log_sync (lines 99-114).
SyncLogEntry(t, section, group_type, group_email, status, members_added, members_removed, error_message, dry, trig, run_id) ==
    [timestamp |-> isoformat(utcnow(t)) \o <<"Z">>,
     section_id |-> section.sectionid,
     section_name |-> section.sectionname,
     group_type |-> group_type,
     group_email |-> group_email,
     status |-> status,
     members_added |-> Cardinality(members_added),
     members_removed |-> Cardinality(members_removed),
     added_emails |-> sorted(members_added),
     removed_emails |-> sorted(members_removed),
     error_message |-> error_message,
     dry_run |-> dry,
     triggered_by |-> trig,
     sync_run_id |-> run_id]

\* _write_to_cloud_storage lines 137-138, _write_to_local_file lines 166-167.
LogFileName(entry) ==
    replace(replace(entry.timestamp, <<":">>, <<"-">>), <<".">>, <<"-">>)
        \o <<"_">> \o entry.section_id \o <<"_">> \o entry.group_type
        \o JSON_SUFFIX

\* blob.upload_from_string / open(filepath, 'w'): the named object now holds
\* the entry; a failing write is swallowed and leaves the store as it was.
write_log(store, entry, write_ok) ==
    IF write_ok
    THEN [n \in DOMAIN store \cup {LogFileName(entry)} |->
            IF n = LogFileName(entry) THEN entry ELSE store[n]]
    ELSE store

\* SyncLogger.log_sync
log_sync(store, t, section, group_type, group_email, status, members_added, members_removed, error_message, dry, trig, run_id, write_ok) ==
    write_log(store,
              SyncLogEntry(t, section, group_type, group_email, status,
                           members_added, members_removed, error_message,
                           dry, trig, run_id),
              write_ok)

EmptyStore == [n \in {} |-> 0]

\* --------------------------------------------------- the batch's inputs
\* Two prefixes of the configuration.
tom == <<"t", "o", "m">>
max == <<"m", "a", "x">>

SECTION_1 == [sectionid |-> <<"1","0","1">>, sectionname |-> "Beavers",
              email_prefix |-> tom, has_term |-> TRUE]
SECTION_2 == [sectionid |-> <<"1","0","2">>, sectionname |-> "Cubs",
              email_prefix |-> max, has_term |-> TRUE]

\* The sections found both in the roster source and in the configuration.
SectionLists == {<<SECTION_1>>, <<SECTION_1, SECTION_2>>}

BatchToday == Date(2026, 6, 15)

RosterMember(patrol, dob, own, contact) ==
    [patrol |-> patrol, date_of_birth |-> dob,
     member_email_1 |-> own, member_email_2 |-> None,
     contacts |-> <<[email_1 |-> contact, email_2 |-> None]>>]

\* What osm_calls.get_members returns for a section when the roster source
\* answers.
Roster(section) ==
    IF section.sectionid = SECTION_1.sectionid
    THEN <<RosterMember(LEADERS_PATROL, Date(1990, 1, 1), a_x, None),
           RosterMember(YOUNG_LEADERS_PATROL, Date(2010, 3, 4), None, b_x),
           RosterMember("Scouts", Date(2015, 9, 9), None, M_GoogleMail)>>
    ELSE <<RosterMember("Scouts", Date(2016, 2, 2), None, c_x)>>

\* What the directory holds for a group when the batch reaches it.
GroupMembership(section, group_type) ==
    IF section.sectionid = SECTION_1.sectionid
    THEN (IF group_type = leaders THEN {}
          ELSE IF group_type = young_leaders THEN {c_x}
          ELSE {m_googlemail})
    ELSE (IF group_type = leaders THEN {a_x}
          ELSE IF group_type = young_leaders THEN {}
          ELSE {b_x})

\* ------------------------------------------------------------------ state
VARIABLES
    directory,       \* the group's members as the directory holds them
    group_exists,    \* whether the directory knows the group
    dry_run,         \* GoogleGroupsManager.dry_run
    pc,              \* position of the manager call in progress
    target_emails,   \* sync_group's argument
    page_token,      \* get_group_members: page_token (0 is None)
    members,         \* get_group_members: members
    current_emails,  \* sync_group locals
    to_add,
    to_remove,
    pending_add,     \* addresses the first for loop has not reached yet
    pending_remove,  \* addresses the second for loop has not reached yet
    added,
    added_list,
    removed,
    removed_list,
    result,          \* the dict sync_group returned
    last_call,       \* the latest call of a primitive and its outcome
    calls,           \* insert/delete requests sent during the current call
    printed_errors,  \* 'Error adding/removing ...' lines of the current call
    run,             \* whether sync_group is being repeated with the same
                     \* target, and how the preceding call went
    driver,          \* the batch driver running: perform_sync ("api") or
                     \* sync_sections ("app"); "none" outside a batch
    batch_pc,        \* position of the batch driver
    results,         \* perform_sync: results
    sync_run_id,     \* the driver's sync_run_id
    triggered_by,    \* the triggered_by tag the driver passes to log_sync
    valid_sections,  \* the sections the driver loops over
    section_i,       \* index of the section being processed
    group_i,         \* index in GroupTypes of the group being processed
    today,           \* date.today()
    section_members, \* section.members
    leaders_emails,  \* the three email sets of the section
    young_leaders_emails,
    parents_emails,
    now,             \* the clock, in microseconds
    log_store,       \* the log store: object name -> SyncLogEntry
    faults_left,     \* failing requests the environment may still inject
    signer,          \* whether IAMSigner.sign is granted ("ok") or refused
    attempted,       \* <<section id, group type>> the driver called sync_group for
    applied,         \* <<section id, group type, "add"/"remove", address>>
                     \* changed in the directory during the batch
    dir_before,      \* the group's members when sync_group was called
    osm_terms,       \* getTerms' answer as perform_sync read it: section id ->
                     \* whether the section has a term that has started
    run_ids,         \* the run identifiers of the log store's writers
    written,         \* the objects written by log_sync, in order
    email_config,    \* the configuration handed to the ConfigManager
    validation,      \* what validate_email_config returned for it
    config_file,     \* the content of email_config.yaml
    loaded_config,   \* what the latest load_email_config returned
    original_config, \* the configuration the file held at the start
    saved_configs,   \* the configurations save_email_config wrote, in order
    use_cloud,       \* SyncLogger.use_cloud
    last_log,        \* how the latest call of log_sync went
    recent_logs      \* what the latest call of get_recent_logs returned

dirVars   == <<directory, group_exists>>
readVars  == <<page_token, members>>
deltaVars == <<current_emails, to_add, to_remove>>
loopVars  == <<pending_add, pending_remove, added, added_list, removed, removed_list>>
histVars  == <<last_call, calls, printed_errors>>

vars == <<directory, group_exists, dry_run, pc, target_emails, page_token,
          members, current_emails, to_add, to_remove, pending_add,
          pending_remove, added, added_list, removed, removed_list, result,
          last_call, calls, printed_errors, run, driver, batch_pc, results,
          sync_run_id, triggered_by, valid_sections, section_i, group_i,
          today, section_members, leaders_emails, young_leaders_emails,
          parents_emails, now, log_store, faults_left, signer, attempted,
          applied, dir_before, osm_terms, run_ids, written, email_config,
          validation,
          config_file, loaded_config, original_config, saved_configs,
          use_cloud, last_log, recent_logs>>

rosterVars == <<today, section_members, leaders_emails, young_leaders_emails,
                parents_emails>>
logVars    == <<now, log_store, run_ids, written>>
driverVars == <<driver, batch_pc, results, sync_run_id, triggered_by,
                valid_sections, section_i, group_i, faults_left, signer,
                attempted, applied, dir_before, osm_terms>>
batchVars  == <<rosterVars, logVars, driverVars>>
fileVars   == <<config_file, loaded_config, original_config, saved_configs>>
configVars == <<email_config, validation, fileVars>>
loggerVars == <<use_cloud, last_log, recent_logs>>
toolVars   == <<configVars, loggerVars>>

FirstRun == [again |-> FALSE, clean |-> TRUE, changed |-> FALSE]

NoResults == [status |-> "-"]

NotCalled == [raised |-> FALSE, is_valid |-> FALSE, error_message |-> "-"]

\* The ConfigManager has not been used.
NoFile == [sections |-> <<>>]

\* No configuration file has been read or written.
FileAtRest ==
    /\ config_file = NoFile
    /\ loaded_config = [kind |-> "none"]
    /\ original_config = [kind |-> "none"]
    /\ saved_configs = <<>>

ConfigAtRest ==
    /\ email_config = [kind |-> "none"]
    /\ validation = NotCalled
    /\ FileAtRest

NoLogCall == [status |-> "-", raised |-> FALSE, wrote |-> FALSE,
              attempted |-> FALSE, sent |-> FALSE]

NoQuery == [limit |-> 0, listed |-> FALSE, logs |-> <<>>]

\* The logger has been neither called nor queried.
LoggerAtRest ==
    /\ last_log = NoLogCall
    /\ recent_logs = NoQuery

\* No manager call is in progress.
ManagerAtRest ==
    /\ pc = "idle"
    /\ target_emails = {}
    /\ page_token = 0
    /\ members = {}
    /\ current_emails = {}
    /\ to_add = {}
    /\ to_remove = {}
    /\ pending_add = {}
    /\ pending_remove = {}
    /\ added = 0
    /\ added_list = <<>>
    /\ removed = 0
    /\ removed_list = <<>>
    /\ result = NoResult
    /\ last_call = NoCall
    /\ calls = {}
    /\ printed_errors = {}
    /\ run = FirstRun

\* No roster has been loaded.
RosterAtRest ==
    /\ section_members = <<>>
    /\ leaders_emails = {}
    /\ young_leaders_emails = {}
    /\ parents_emails = {}

\* Nothing has been logged.
LogAtRest ==
    /\ now = 0
    /\ log_store = EmptyStore
    /\ run_ids = [w \in {} |-> None]
    /\ written = <<>>

\* No batch driver is running.
DriverAtRest ==
    /\ driver = "none"
    /\ batch_pc = "idle"
    /\ results = NoResults
    /\ sync_run_id = None
    /\ triggered_by = "-"
    /\ valid_sections = <<>>
    /\ section_i = 0
    /\ group_i = 0
    /\ faults_left = MaxFaults
    /\ signer = "ok"
    /\ attempted = {}
    /\ applied = {}
    /\ dir_before = {}
    /\ osm_terms = <<>>

\* A GoogleGroupsManager has been constructed for one group.
Init ==
    /\ group_exists \in BOOLEAN
    /\ directory \in {d \in SUBSET DirectoryAddresses :
                        ConsistentMembership(d) /\ (~group_exists => d = {})}
    /\ dry_run \in BOOLEAN
    /\ ManagerAtRest
    /\ today = BatchToday
    /\ RosterAtRest
    /\ LogAtRest
    /\ DriverAtRest
    /\ ConfigAtRest
    /\ use_cloud = FALSE
    /\ LoggerAtRest

\* The locals of a manager call, as they are before any call.
ResetLocals ==
    /\ target_emails' = {}
    /\ page_token' = 0
    /\ members' = {}
    /\ current_emails' = {}
    /\ to_add' = {}
    /\ to_remove' = {}
    /\ pending_add' = {}
    /\ pending_remove' = {}
    /\ added' = 0
    /\ added_list' = <<>>
    /\ removed' = 0
    /\ removed_list' = <<>>
    /\ result' = NoResult
    /\ last_call' = NoCall
    /\ calls' = {}
    /\ printed_errors' = {}
    /\ run' = FirstRun

\* Entry of sync_group(group_name, target_emails), up to the call of
\* get_group_members.
EnterSyncGroup(target) ==
    /\ target_emails' = target
    /\ page_token' = 0
    /\ members' = {}
    /\ current_emails' = {}
    /\ to_add' = {}
    /\ to_remove' = {}
    /\ pending_add' = {}
    /\ pending_remove' = {}
    /\ added' = 0
    /\ added_list' = <<>>
    /\ removed' = 0
    /\ removed_list' = <<>>
    /\ result' = NoResult
    /\ last_call' = NoCall
    /\ calls' = {}
    /\ printed_errors' = {}
    /\ pc' = "list"

\* A caller passes the addresses of roster members (Section.get_*_emails
\* updates a set with Member.get_contact_emails of each selected member).
sync_group ==
    /\ pc = "idle"
    /\ \E e1 \in OwnEmails, e2 \in OwnEmails,
          c1 \in ContactEmails, c2 \in ContactEmails :
          EnterSyncGroup(Range(Member_get_contact_emails(
              [member_email_1 |-> e1, member_email_2 |-> e2,
               contacts |-> <<[email_1 |-> c1, email_2 |-> c2]>>])))
    /\ run' = FirstRun
    /\ UNCHANGED <<dirVars, dry_run, batchVars>>

\* Every add and remove of the call that returned was reported successful.
CleanReturn ==
    /\ pc = "returned"
    /\ result.added_count = Cardinality(to_add)
    /\ result.removed_count = Cardinality(to_remove)

\* sync_group is called again with the target of the call that just returned.
sync_group_again ==
    /\ pc = "returned"
    /\ run' = [again |-> TRUE, clean |-> CleanReturn,
               changed |-> result.added_count + result.removed_count > 0]
    /\ EnterSyncGroup(target_emails)
    /\ UNCHANGED <<dirVars, dry_run, batchVars>>

\* Where sync_group stands once the loops have nothing left to do, and the
\* dict it returns then.
LoopExit(pa, pr, n_added, l_added, n_removed, l_removed, current) ==
    /\ pc' = IF pa # {} THEN "add" ELSE IF pr # {} THEN "remove" ELSE "returned"
    /\ result' = IF pa = {} /\ pr = {}
                 THEN LiveResult(target_emails, current, n_added, l_added,
                                 n_removed, l_removed)
                 ELSE NoResult

\* sync_group from the return of get_group_members (line 357) to the first
\* iteration of a loop, or to the return when there is none.
AfterRead(current) ==
    LET add    == ComputeToAdd(target_emails, current)
        remove == ComputeToRemove(target_emails, current)
    IN  /\ current_emails' = current
        /\ to_add' = add
        /\ to_remove' = remove
        /\ IF dry_run
           THEN /\ pc' = "returned"
                /\ result' = DryRunResult(target_emails, current, add, remove)
                /\ pending_add' = {}
                /\ pending_remove' = {}
           ELSE /\ pending_add' = add
                /\ pending_remove' = remove
                /\ LoopExit(add, remove, 0, <<>>, 0, <<>>, current)

\* One request of get_group_members' paging loop and what follows from it.
ListPage ==
    /\ pc = "list"
    /\ \E fault \in Faults :
         LET r == members_list(directory, group_exists, page_token, fault)
             s == get_group_members_step(members, r)
         IN  /\ last_call' = [fn |-> "get_group_members", email |-> None,
                              called |-> TRUE, resp |-> r.resp,
                              ret |-> IF s.next = "raise" THEN "raised" ELSE "-"]
             /\ members' = s.members
             /\ page_token' = s.page_token
             /\ CASE s.next = "more" ->
                       /\ pc' = "list"
                       /\ UNCHANGED <<deltaVars, pending_add, pending_remove, result>>
                  [] s.next = "return" -> AfterRead(s.members)
                  [] s.next = "raise" ->
                       /\ pc' = "raised"
                       /\ UNCHANGED <<deltaVars, pending_add, pending_remove, result>>
    /\ UNCHANGED <<dirVars, dry_run, target_emails, added, added_list,
                   removed, removed_list, calls, printed_errors, run>>

Record(fn, email, o) ==
    [fn |-> fn, email |-> email, called |-> o.called, resp |-> o.resp, ret |-> o.ret]

Printed(fn, email, o) ==
    IF o.printed THEN {[fn |-> fn, email |-> email, status |-> o.resp.status]} ELSE {}

\* One iteration of "for email in to_add" (lines 386-389).
AddStep(email) ==
    /\ pc = "add"
    /\ email \in pending_add
    /\ \E fault \in Faults, stored \in StoredForms(email) :
         LET o == add_member(dry_run, directory, group_exists, email, fault, stored)
             n == IF o.ret = "True" THEN added + 1 ELSE added
             l == IF o.ret = "True" THEN Append(added_list, email) ELSE added_list
         IN  /\ directory' = o.directory
             /\ last_call' = Record("add_member", email, o)
             /\ calls' = IF o.called THEN calls \cup {<<"insert", email>>} ELSE calls
             /\ printed_errors' = printed_errors \cup Printed("add_member", email, o)
             /\ IF o.ret = "raised"
                THEN /\ pc' = "raised"
                     /\ UNCHANGED <<pending_add, added, added_list, result>>
                ELSE /\ pending_add' = pending_add \ {email}
                     /\ added' = n
                     /\ added_list' = l
                     /\ LoopExit(pending_add \ {email}, pending_remove, n, l,
                                 removed, removed_list, current_emails)
    /\ UNCHANGED <<group_exists, dry_run, target_emails, readVars, deltaVars,
                   pending_remove, removed, removed_list, run>>

\* One iteration of "for email in to_remove" (lines 394-397).
RemoveStep(email) ==
    /\ pc = "remove"
    /\ email \in pending_remove
    /\ \E fault \in Faults :
         LET o == remove_member(dry_run, directory, group_exists, email, fault)
             n == IF o.ret = "True" THEN removed + 1 ELSE removed
             l == IF o.ret = "True" THEN Append(removed_list, email) ELSE removed_list
         IN  /\ directory' = o.directory
             /\ last_call' = Record("remove_member", email, o)
             /\ calls' = IF o.called THEN calls \cup {<<"delete", email>>} ELSE calls
             /\ printed_errors' = printed_errors \cup Printed("remove_member", email, o)
             /\ IF o.ret = "raised"
                THEN /\ pc' = "raised"
                     /\ UNCHANGED <<pending_remove, removed, removed_list, result>>
                ELSE /\ pending_remove' = pending_remove \ {email}
                     /\ removed' = n
                     /\ removed_list' = l
                     /\ LoopExit(pending_add, pending_remove \ {email}, added,
                                 added_list, n, l, current_emails)
    /\ UNCHANGED <<group_exists, dry_run, target_emails, readVars, deltaVars,
                   pending_add, added, added_list, run>>

\* Addresses as the manager's callers hold them (normalized).
MemberAddresses == {NormalizeMember(r) : r \in DirectoryAddresses}

\* add_member called on its own.
add_member_call(email) ==
    /\ pc = "idle"
    /\ \E fault \in Faults, stored \in StoredForms(email) :
         LET o == add_member(dry_run, directory, group_exists, email, fault, stored)
         IN  /\ directory' = o.directory
             /\ last_call' = Record("add_member", email, o)
             /\ calls' = IF o.called THEN {<<"insert", email>>} ELSE {}
             /\ printed_errors' = Printed("add_member", email, o)
             /\ pc' = IF o.ret = "raised" THEN "prim_raised" ELSE "prim_returned"
    /\ UNCHANGED <<group_exists, dry_run, target_emails, readVars, deltaVars,
                   loopVars, result, run, batchVars>>

\* remove_member called on its own.
remove_member_call(email) ==
    /\ pc = "idle"
    /\ \E fault \in Faults :
         LET o == remove_member(dry_run, directory, group_exists, email, fault)
         IN  /\ directory' = o.directory
             /\ last_call' = Record("remove_member", email, o)
             /\ calls' = IF o.called THEN {<<"delete", email>>} ELSE {}
             /\ printed_errors' = Printed("remove_member", email, o)
             /\ pc' = IF o.ret = "raised" THEN "prim_raised" ELSE "prim_returned"
    /\ UNCHANGED <<group_exists, dry_run, target_emails, readVars, deltaVars,
                   loopVars, result, run, batchVars>>

\* The caller takes the returned value or the exception; the manager is
\* ready for the next call.
Finish ==
    /\ pc \in {"returned", "raised", "prim_returned", "prim_raised"}
    /\ pc' = "idle"
    /\ ResetLocals
    /\ UNCHANGED <<dirVars, dry_run, batchVars>>

\* The process is killed in the middle of a sync_group call; a new process
\* starts with what the directory holds by then.
Crash ==
    /\ pc \in {"list", "add", "remove"}
    /\ pc' = "idle"
    /\ ResetLocals
    /\ UNCHANGED <<dirVars, dry_run, batchVars>>

\* Between runs the membership is changed by others.
ExternalAdd(r) ==
    /\ pc = "idle"
    /\ group_exists
    /\ ConsistentMembership(directory \cup {r})
    /\ r \notin directory
    /\ directory' = directory \cup {r}
    /\ UNCHANGED <<group_exists, dry_run, pc, target_emails, readVars, deltaVars,
                   loopVars, result, histVars, run, batchVars>>

ExternalRemove(r) ==
    /\ pc = "idle"
    /\ r \in directory
    /\ directory' = directory \ {r}
    /\ UNCHANGED <<group_exists, dry_run, pc, target_emails, readVars, deltaVars,
                   loopVars, result, histVars, run, batchVars>>

ExternalCreateGroup ==
    /\ pc = "idle"
    /\ ~group_exists
    /\ group_exists' = TRUE
    /\ UNCHANGED <<directory, dry_run, pc, target_emails, readVars, deltaVars,
                   loopVars, result, histVars, run, batchVars>>

ExternalDeleteGroup ==
    /\ pc = "idle"
    /\ group_exists
    /\ group_exists' = FALSE
    /\ directory' = {}
    /\ UNCHANGED <<dry_run, pc, target_emails, readVars, deltaVars,
                   loopVars, result, histVars, run, batchVars>>

Next ==
    \/ sync_group /\ UNCHANGED toolVars
    \/ sync_group_again /\ UNCHANGED toolVars
    \/ ListPage /\ UNCHANGED batchVars /\ UNCHANGED toolVars
    \/ \E email \in MemberAddresses : AddStep(email) /\ UNCHANGED batchVars /\ UNCHANGED toolVars
    \/ \E email \in MemberAddresses : RemoveStep(email) /\ UNCHANGED batchVars /\ UNCHANGED toolVars
    \/ \E email \in MemberAddresses : add_member_call(email) /\ UNCHANGED toolVars
    \/ \E email \in MemberAddresses : remove_member_call(email) /\ UNCHANGED toolVars
    \/ Finish /\ UNCHANGED toolVars
    \/ Crash /\ UNCHANGED toolVars
    \/ \E r \in DirectoryAddresses : ExternalAdd(r) /\ UNCHANGED toolVars
    \/ \E r \in DirectoryAddresses : ExternalRemove(r) /\ UNCHANGED toolVars
    \/ ExternalCreateGroup /\ UNCHANGED toolVars
    \/ ExternalDeleteGroup /\ UNCHANGED toolVars

Spec == Init /\ [][Next]_vars

TypeOK ==
    /\ directory \subseteq DirectoryAddresses
    /\ ConsistentMembership(directory)
    /\ group_exists \in BOOLEAN
    /\ ~group_exists => directory = {}
    /\ pc \in {"idle", "list", "add", "remove", "returned", "raised",
              "prim_returned", "prim_raised"}
    /\ target_emails \subseteq MemberAddresses
    /\ run \in [again : BOOLEAN, clean : BOOLEAN, changed : BOOLEAN]

\* ------------------------------------------------------ the batch drivers
\* perform_sync (src/src/api.py) and sync_sections (src/src/app.py) process
\* the sections one after the other and, for each, the three groups.  The
\* groups of a batch are distinct groups of the directory: directory and
\* group_exists describe the group of the sync_group call in progress.

\* perform_sync, lines 79-88.
InitialResults(dry, trig) ==
    [status |-> "success", triggered_by |-> trig, sections_synced |-> 0,
     groups_synced |-> 0, total_added |-> 0, total_removed |-> 0,
     errors |-> <<>>, dry_run |-> dry]

\* perform_sync, lines 203-206: the outer except clause.
Failed(res, e) == [res EXCEPT !.status = "failed", !.errors = Append(@, e)]

\* perform_sync, lines 198-199.
OverallStatus(res) ==
    IF res.errors # <<>> THEN [res EXCEPT !.status = "completed_with_errors"]
    ELSE res

\* 'youngleaders' if group_type == 'young_leaders' else group_type
GroupNameType(group_type) ==
    IF group_type = young_leaders THEN youngleaders ELSE group_type

\* sync_group, lines 348-352: group_name@domain.
FullGroupEmail(group_name) ==
    group_name \o <<"@", "e", "x", "a", "m", "p", "l", "e", ".", "c", "o", "m">>

BatchInit ==
    /\ group_exists = TRUE
    /\ directory = {}
    /\ dry_run = FALSE
    /\ ManagerAtRest
    /\ today = BatchToday
    /\ RosterAtRest
    /\ LogAtRest
    /\ DriverAtRest
    /\ ConfigAtRest
    /\ use_cloud = FALSE
    /\ LoggerAtRest

\* What getTerms may answer: whether each section has a term that has
\* started ('past' is true).
TermsData ==
    {[id \in {SECTION_1.sectionid, SECTION_2.sectionid} |-> id \notin without] :
        without \in {{}, {SECTION_1.sectionid}, {SECTION_2.sectionid}}}

\* The part of getTerms' answer that get_terms reads.
TermsRead(sections, terms_data) ==
    [id \in {sections[i].sectionid : i \in DOMAIN sections} |-> terms_data[id]]

\* osm_calls.get_sections: no section has a current_term yet.
get_sections(sections) ==
    [i \in DOMAIN sections |-> [sections[i] EXCEPT !.has_term = FALSE]]

\* osm_calls.get_terms raises: max() of the empty list of started terms.
get_terms_raises(sections, terms_data) ==
    \E i \in DOMAIN sections : ~terms_data[sections[i].sectionid]

\* osm_calls.get_terms: the latest started term of each section, in the
\* order of the sections.
get_terms(sections, terms_data) ==
    [i \in DOMAIN sections |-> [sectionid |-> sections[i].sectionid]]

\* perform_sync, lines 105-108.
AttachTerms(sections, terms) ==
    [i \in DOMAIN sections |->
        IF i <= Len(terms) /\ sections[i].sectionid = terms[i].sectionid
        THEN [sections[i] EXCEPT !.has_term = TRUE]
        ELSE sections[i]]

\* perform_sync from its entry to the loop over the sections (lines 79-127):
\* the run identifier, load_configs, get_sections, get_terms, and the
\* construction of the manager, each of which may raise.
perform_sync(dry, trig) ==
    /\ batch_pc = "idle"
    /\ driver' = "api"
    /\ triggered_by' = trig
    /\ \E suffix \in RandomSuffixes : sync_run_id' = make_sync_run_id(now, suffix)
    /\ \E outcome \in {"ok", "config_error", "osm_error", "auth_error"},
          sections \in SectionLists, sgn \in {"ok", "refused"},
          terms_data \in TermsData :
          IF outcome = "ok" /\ ~get_terms_raises(get_sections(sections), terms_data)
          THEN /\ results' = InitialResults(dry, trig)
               /\ valid_sections' =
                      AttachTerms(get_sections(sections),
                                  get_terms(get_sections(sections), terms_data))
               /\ osm_terms' = TermsRead(sections, terms_data)
               /\ section_i' = 1
               /\ dry_run' = dry
               /\ signer' = sgn
               /\ batch_pc' = "section"
          ELSE /\ results' = Failed(InitialResults(dry, trig),
                                    IF outcome = "ok" THEN "get_terms" ELSE outcome)
               /\ valid_sections' = <<>>
               /\ osm_terms' = IF outcome = "ok"
                               THEN TermsRead(sections, terms_data) ELSE <<>>
               /\ section_i' = 0
               /\ dry_run' = dry_run
               /\ signer' = "ok"
               /\ batch_pc' = "done"
    /\ UNCHANGED <<directory, group_exists, pc, target_emails, readVars,
                   deltaVars, loopVars, result, histVars, run, rosterVars,
                   logVars, group_i, faults_left, attempted, applied,
                   dir_before>>

\* sync_sections from the run identifier to the loop over the selected
\* sections (lines 548-561); log_sync is called without triggered_by, whose
\* default is "manual".
sync_sections(dry) ==
    /\ batch_pc = "idle"
    /\ driver' = "app"
    /\ triggered_by' = "manual"
    /\ results' = NoResults
    /\ \E suffix \in RandomSuffixes : sync_run_id' = make_sync_run_id(now, suffix)
    /\ \E outcome \in {"ok", "auth_error"}, sections \in SectionLists,
          sgn \in {"ok", "refused"} :
          IF outcome = "ok"
          THEN /\ valid_sections' = sections
               /\ section_i' = 1
               /\ dry_run' = dry
               /\ signer' = sgn
               /\ batch_pc' = "section"
          ELSE /\ valid_sections' = <<>>
               /\ section_i' = 0
               /\ dry_run' = dry_run
               /\ signer' = "ok"
               /\ batch_pc' = "aborted"
    /\ UNCHANGED <<directory, group_exists, pc, target_emails, readVars,
                   deltaVars, loopVars, result, histVars, run, rosterVars,
                   logVars, group_i, faults_left, attempted, applied,
                   dir_before, osm_terms>>

\* The head of the loop over the sections: the current-term check of
\* perform_sync (lines 131-133), get_members and the three email sets
\* (api.py lines 136-141, app.py lines 567-575).  get_members returns [] when
\* the request to the roster source fails, and raises when the answer cannot
\* be decoded.
LoadSection ==
    /\ batch_pc = "section"
    /\ section_i <= Len(valid_sections)
    /\ LET section == valid_sections[section_i]
       IN  IF driver = "api" /\ ~section.has_term
           THEN /\ results' = [results EXCEPT !.errors =
                                  Append(@, <<"No current term", section.sectionname>>)]
                /\ section_i' = section_i + 1
                /\ UNCHANGED <<batch_pc, group_i, faults_left, section_members,
                               leaders_emails, young_leaders_emails,
                               parents_emails>>
           ELSE \E answer \in {"roster", "empty", "raise"} :
                  /\ answer # "roster" => faults_left > 0
                  /\ faults_left' = IF answer = "roster" THEN faults_left
                                    ELSE faults_left - 1
                  /\ IF answer = "raise"
                     THEN /\ results' = IF driver = "api"
                                        THEN Failed(results, "get_members")
                                        ELSE results
                          /\ batch_pc' = IF driver = "api" THEN "done" ELSE "aborted"
                          /\ UNCHANGED <<section_i, group_i, section_members,
                                         leaders_emails, young_leaders_emails,
                                         parents_emails>>
                     ELSE LET loaded == IF answer = "roster" THEN Roster(section)
                                        ELSE <<>>
                          IN  /\ section_members' = loaded
                              /\ leaders_emails' =
                                   Section_get_leaders_emails(loaded, today)
                              /\ young_leaders_emails' =
                                   Section_get_young_leaders_emails(loaded, today)
                              /\ parents_emails' =
                                   Section_get_parents_emails(loaded, today)
                              /\ group_i' = 1
                              /\ batch_pc' = "group"
                              /\ UNCHANGED <<results, section_i>>
    /\ UNCHANGED <<dirVars, dry_run, pc, target_emails, readVars, deltaVars,
                   loopVars, result, histVars, run, today, logVars, driver,
                   sync_run_id, triggered_by, valid_sections, signer,
                   attempted, applied, dir_before, osm_terms>>

\* The loop over the sections is exhausted: perform_sync sets the overall
\* status and returns (lines 197-201); sync_sections shows its summary.
FinishBatch ==
    /\ batch_pc = "section"
    /\ section_i > Len(valid_sections)
    /\ results' = IF driver = "api" THEN OverallStatus(results) ELSE results
    /\ batch_pc' = "done"
    /\ UNCHANGED <<dirVars, dry_run, pc, target_emails, readVars, deltaVars,
                   loopVars, result, histVars, run, rosterVars, logVars,
                   driver, sync_run_id, triggered_by, valid_sections,
                   section_i, group_i, faults_left, signer, attempted,
                   applied, dir_before, osm_terms>>

\* The email set the driver passes for a group type.
GroupTarget(group_type) ==
    IF group_type = leaders THEN leaders_emails
    ELSE IF group_type = young_leaders THEN young_leaders_emails
    ELSE parents_emails

\* The driver calls manager.sync_group(group_name, emails) for the next
\* group (api.py lines 152-155, app.py lines 589, 617, 645).
CallSyncGroup ==
    /\ batch_pc = "group"
    /\ LET section    == valid_sections[section_i]
           group_type == GroupTypes[group_i]
       IN  /\ directory' = GroupMembership(section, group_type)
           /\ dir_before' = GroupMembership(section, group_type)
           /\ attempted' = attempted \cup {<<section.sectionid, group_type>>}
           /\ EnterSyncGroup(GroupTarget(group_type))
    /\ group_exists' = TRUE
    /\ run' = FirstRun
    /\ batch_pc' = "in_sync"
    /\ UNCHANGED <<dry_run, rosterVars, logVars, driver, results, sync_run_id,
                   triggered_by, valid_sections, section_i, group_i,
                   faults_left, signer, applied, osm_terms>>

\* The request of the manager step just taken was answered by an injected
\* failure.
InjectedFault(call) == call.called /\ call.resp \in {HttpError(503), TransportError}

\* A manager step inside a batch: with the signer refused every request
\* raises from .execute() (IAMSigner.sign raises ValueError, lines 150-153);
\* otherwise a failing answer uses up one of the environment's faults.
InBatch ==
    /\ batch_pc = "in_sync"
    /\ signer = "refused" => (last_call'.called => last_call'.resp = TransportError)
    /\ faults_left' = IF signer = "ok" /\ InjectedFault(last_call')
                      THEN faults_left - 1 ELSE faults_left
    /\ faults_left' >= 0
    /\ UNCHANGED <<rosterVars, logVars, driver, batch_pc, results, sync_run_id,
                   triggered_by, valid_sections, section_i, group_i, signer,
                   attempted, applied, dir_before, osm_terms>>

BatchListPage == ListPage /\ InBatch
BatchAddStep(email) == AddStep(email) /\ InBatch
BatchRemoveStep(email) == RemoveStep(email) /\ InBatch

\* What the directory holds that it did not when sync_group was called, and
\* the reverse, as addresses of the group of the call in progress.
AppliedChanges(section, group_type) ==
    {<<section.sectionid, group_type, "add", NormalizeMember(r)>> :
        r \in {x \in directory : \A y \in dir_before : DirCanon(x) # DirCanon(y)}}
    \cup
    {<<section.sectionid, group_type, "remove", NormalizeMember(r)>> :
        r \in {x \in dir_before : \A y \in directory : DirCanon(x) # DirCanon(y)}}

\* The driver moves on to the next group, or past the last group of the
\* section (perform_sync line 195: sections_synced += 1).
NextGroup(res) ==
    IF group_i < Len(GroupTypes)
    THEN /\ group_i' = group_i + 1
         /\ batch_pc' = "group"
         /\ results' = res
         /\ UNCHANGED section_i
    ELSE /\ group_i' = 0
         /\ section_i' = section_i + 1
         /\ batch_pc' = "section"
         /\ results' = IF driver = "api"
                       THEN [res EXCEPT !.sections_synced = @ + 1]
                       ELSE res

\* The driver's call of logger.log_sync: the entry is written at the time the
\* clock shows, unless the write fails, which log_sync swallows.
DriverLogs(section, group_type, group_email, status, members_added, members_removed, error_message) ==
    \E write_ok \in BOOLEAN :
        LET entry == SyncLogEntry(now, section, group_type, group_email, status,
                                  members_added, members_removed, error_message,
                                  dry_run, triggered_by, sync_run_id)
        IN  /\ ~write_ok => faults_left > 0
            /\ faults_left' = IF write_ok THEN faults_left ELSE faults_left - 1
            /\ log_store' = log_sync(log_store, now, section, group_type,
                                     group_email, status, members_added,
                                     members_removed, error_message, dry_run,
                                     triggered_by, sync_run_id, write_ok)
            /\ written' = IF write_ok
                          THEN Append(written, [name |-> LogFileName(entry),
                                                entry |-> entry])
                          ELSE written
            /\ now' = now + 1
            /\ UNCHANGED run_ids

\* The counters taking the size of the target for the number added.
UpdateResults_CountsTarget(res, group_result) ==
    [res EXCEPT !.groups_synced = @ + 1,
                !.total_added = @ + group_result.target_count,
                !.total_removed = @ + Len(group_result.removed_emails)]

\* perform_sync, lines 171-174 ("# Update results").
UpdateResults(res, group_result) ==
    [res EXCEPT !.groups_synced = @ + 1,
                !.total_added = @ + Len(group_result.added_emails),
                !.total_removed = @ + Len(group_result.removed_emails)]

\* sync_group returned: the SUCCESS entry and the counters (api.py lines
\* 157-174, app.py lines 590-600).
GroupReturned ==
    /\ batch_pc = "in_sync"
    /\ pc = "returned"
    /\ LET section    == valid_sections[section_i]
           group_type == GroupTypes[group_i]
           group_name == Section_get_group_name(section, GroupNameType(group_type))
       IN  /\ DriverLogs(section, group_type,
                         IF driver = "api" THEN group_name
                         ELSE FullGroupEmail(group_name),
                         SUCCESS, Range(result.added_emails),
                         Range(result.removed_emails), None)
           /\ applied' = applied \cup AppliedChanges(section, group_type)
           /\ NextGroup(IF driver = "api"
                        THEN UpdateResults(results, result)
                        ELSE results)
    /\ pc' = "idle"
    /\ ResetLocals
    /\ UNCHANGED <<dirVars, dry_run, rosterVars, driver, sync_run_id,
                   triggered_by, valid_sections, signer, attempted, dir_before,
                   osm_terms>>

\* sync_group raised: the ERROR entry; perform_sync appends the error and
\* goes on (lines 176-193), sync_sections raises again and leaves the loop
\* through its outer except clause (lines 601-613, 721-722).
GroupRaised ==
    /\ batch_pc = "in_sync"
    /\ pc = "raised"
    /\ LET section    == valid_sections[section_i]
           group_type == GroupTypes[group_i]
           group_name == Section_get_group_name(section, GroupNameType(group_type))
           e          == last_call.resp
       IN  /\ DriverLogs(section, group_type, group_name, ERROR, {}, {}, e)
           /\ applied' = applied \cup AppliedChanges(section, group_type)
           /\ IF driver = "api"
              THEN NextGroup([results EXCEPT !.errors =
                                Append(@, <<section.sectionname, group_type, e>>)])
              ELSE /\ batch_pc' = "aborted"
                   /\ UNCHANGED <<results, section_i, group_i>>
    /\ pc' = "idle"
    /\ ResetLocals
    /\ UNCHANGED <<dirVars, dry_run, rosterVars, driver, sync_run_id,
                   triggered_by, valid_sections, signer, attempted, dir_before,
                   osm_terms>>

BatchNext ==
    \/ \E dry \in BOOLEAN, trig \in {"scheduler", "manual"} : perform_sync(dry, trig) /\ UNCHANGED toolVars
    \/ \E dry \in BOOLEAN : sync_sections(dry) /\ UNCHANGED toolVars
    \/ LoadSection /\ UNCHANGED toolVars
    \/ FinishBatch /\ UNCHANGED toolVars
    \/ CallSyncGroup /\ UNCHANGED toolVars
    \/ BatchListPage /\ UNCHANGED toolVars
    \/ \E email \in MemberAddresses : BatchAddStep(email) /\ UNCHANGED toolVars
    \/ \E email \in MemberAddresses : BatchRemoveStep(email) /\ UNCHANGED toolVars
    \/ GroupReturned /\ UNCHANGED toolVars
    \/ GroupRaised /\ UNCHANGED toolVars

BatchSpec == BatchInit /\ [][BatchNext]_vars

BatchTypeOK ==
    /\ TypeOK
    /\ driver \in {"none", "api", "app"}
    /\ batch_pc \in {"idle", "section", "group", "in_sync", "done", "aborted"}
    /\ faults_left \in 0..MaxFaults
    /\ section_i \in 0..(Len(valid_sections) + 1)
    /\ group_i \in 0..Len(GroupTypes)

\* ----------------------------------------------------------------- claims
\* sync_group has read the membership and computed the delta.
DeltaComputed == pc \in {"add", "remove", "returned"}

\* The membership the directory holds, as get_group_members reports it.
DirectoryMembership == {NormalizeMember(r) : r \in directory}

\* C1: when a Live sync_group call returns and every add and remove it made
\* was reported successful, the membership get_group_members reads next
\* equals the target set, whatever the group held when the call began.
C1_Convergence ==
    (pc = "returned" /\ ~dry_run /\ CleanReturn)
        => get_group_members(directory, group_exists) = target_emails

C1_Witness ==
    /\ pc = "returned" /\ ~dry_run /\ CleanReturn
    /\ to_add # {} /\ to_remove # {}
    /\ M_GoogleMail \in directory
    /\ get_group_members(directory, group_exists) = target_emails

\* C2: no step of a manager in dry-run mode (sync_group on any path, a failed
\* read included, or a primitive called on its own) sends an insert or a
\* delete, and the membership get_group_members returns is the same after
\* the step as before it.  Steps with pc = "idle" before and after are the
\* directory's, not the manager's.
C2_PreviewReadOnly ==
    [][(dry_run /\ ~(pc = "idle" /\ pc' = "idle"))
          => /\ calls' = {}
             /\ directory' = directory
             /\ group_exists' = group_exists
             /\ get_group_members(directory', group_exists')
                  = get_group_members(directory, group_exists)]_vars

C2_Witness ==
    /\ dry_run /\ pc = "returned" /\ run.again
    /\ to_add # {} /\ to_remove # {}
    /\ result.added_count = Cardinality(to_add)
    /\ DirectoryMembership = current_emails

\* C3: the delta of a sync_group call is to_add = target - current and
\* to_remove = current - target, current being what the directory holds
\* during that call (until the call's first request to change it, the
\* directory holds what it held when the call began).
C3_DeltaFromFreshRead ==
    (DeltaComputed /\ calls = {})
        => /\ to_add = target_emails \ DirectoryMembership
           /\ to_remove = DirectoryMembership \ target_emails

C3_Witness ==
    /\ DeltaComputed /\ calls = {} /\ run.again
    /\ directory = {a_x, b_x}
    /\ target_emails = {b_x, c_x}
    /\ to_add = {c_x}
    /\ to_remove = {a_x}

FailedAdds == {e \in to_add : <<"insert", e>> \in calls /\ e \notin Range(added_list)}

\* C5 as stated: when the add of one address of to_add fails in a Live call
\* on a group the directory knows,
\* sync_group has, when it ends, attempted every address of to_add and of
\* to_remove, and the added_count and removed_count it returns are the
\* numbers of attempts that did not fail.
C5_PartialFailureIsolation ==
    (~dry_run /\ group_exists /\ pc \in {"returned", "raised"} /\ FailedAdds # {})
        => /\ \A e \in to_add : <<"insert", e>> \in calls
           /\ \A e \in to_remove : <<"delete", e>> \in calls
           /\ pc = "returned"
                => /\ result.added_count = Cardinality(to_add \ FailedAdds)
                   /\ result.removed_count = Len(removed_list)

\* The addresses a returned dict carries in its lists.
ResultAddresses(res) == Range(res.added_emails) \cup Range(res.removed_emails)

\* C6 as stated: the dict a Live sync_group call returns (the group being
\* one the directory knows) lists every address whose add or remove failed,
\* with the reason of the failure.
C6_FailuresListed ==
    (pc = "returned" /\ ~dry_run /\ group_exists)
        => \A f \in printed_errors : f.email \in ResultAddresses(result)

\* A response to a membership read that is an error other than 404.
ReadFailed(call) ==
    /\ call.fn = "get_group_members"
    /\ call.resp.exc # "none"
    /\ ~(call.resp.exc = "HttpError" /\ call.resp.status = 404)

\* C7: when a page request of the membership read (the first or a later one)
\* is answered by an error other than group-not-found, get_group_members
\* raises: sync_group returns nothing, has computed no delta from an empty
\* or partial set and sends no insert or delete.
C7_ReadFailurePropagates ==
    /\ ReadFailed(last_call)
         => /\ pc = "raised"
            /\ result = NoResult
            /\ calls = {}
            /\ to_add = {} /\ to_remove = {}
            /\ pending_add = {} /\ pending_remove = {}
    /\ (pc = "raised" /\ last_call.fn = "get_group_members")
         => /\ ReadFailed(last_call)
            /\ calls = {}

C7_Witness ==
    /\ pc = "raised" /\ ReadFailed(last_call)
    /\ ~dry_run
    /\ members # {}
    /\ members # DirectoryMembership
    /\ target_emails # {}
    /\ calls = {}

\* C8 as stated: when the directory does not know the group, the read gives
\* the empty set without raising, to_add is the target and to_remove is
\* empty, and a Live call adds the target addresses successfully.
C8_MissingGroupIsFilled ==
    (pc = "returned" /\ ~dry_run /\ ~group_exists)
        => /\ current_emails = {}
           /\ to_add = target_emails
           /\ to_remove = {}
           /\ result.added_emails = sorted(target_emails)
           /\ result.added_count = Cardinality(target_emails)

\* A step that is a call of add_member, resp. remove_member, for email.
AddMemberStep(email) == add_member_call(email) \/ AddStep(email)
RemoveMemberStep(email) == remove_member_call(email) \/ RemoveStep(email)

\* The outcome of a primitive that is a success: True returned, no error
\* line printed, no exception, the membership as before.
IdempotentSuccess ==
    /\ last_call'.ret = "True"
    /\ printed_errors' \subseteq printed_errors
    /\ pc' \notin {"raised", "prim_raised"}
    /\ directory' = directory

\* C9: add_member answered "already a member" (409) and remove_member
\* answered "not a member" (404) return True, print no error and leave the
\* membership as it was.
C9_IdempotentPrimitives ==
    [][/\ (last_call'.resp = HttpError(409) /\ AddMemberStep(last_call'.email))
              => IdempotentSuccess
       /\ (last_call'.resp = HttpError(404) /\ RemoveMemberStep(last_call'.email))
              => IdempotentSuccess]_vars

C9_Witness ==
    /\ pc = "prim_returned"
    /\ last_call.fn = "add_member"
    /\ last_call.resp = HttpError(409)
    /\ last_call.ret = "True"
    /\ \E r \in directory : r # last_call.email /\ DirCanon(r) = DirCanon(last_call.email)

\* C10: a target address and a member the directory holds that differ only
\* by letter case or by the host googlemail.com for gmail.com are in neither
\* to_add nor to_remove, and every target address is in the form that
\* get_group_members gives to the members it reads.
C10_Normalization ==
    /\ \A t \in target_emails : NormalizeMember(t) = t
    /\ (DeltaComputed /\ calls = {})
         => \A t \in target_emails : \A r \in directory :
               DirCanon(r) = DirCanon(t)
                  => (t \notin to_add /\ NormalizeMember(r) \notin to_remove)

C10_Witness ==
    /\ DeltaComputed /\ calls = {}
    /\ M_GoogleMail \in directory
    /\ m_gmail \in target_emails
    /\ m_gmail \notin to_add
    /\ to_remove = {}

\* ------------------------------------------ concurrent writers of the log
\* A manual run (the dashboard) and a scheduled run (the API) are separate
\* processes that call log_sync on the same store, each with the run
\* identifier it drew when it started and with its own triggered_by tag.
Writers == {"manual", "scheduler"}

\* The times, in microseconds, the clock shows in turn.
Instants == {0, 1, 1000000}

LogInit ==
    /\ group_exists = TRUE
    /\ directory = {}
    /\ dry_run = FALSE
    /\ ManagerAtRest
    /\ today = BatchToday
    /\ RosterAtRest
    /\ LogAtRest
    /\ DriverAtRest
    /\ ConfigAtRest
    /\ use_cloud = FALSE
    /\ LoggerAtRest

\* The clock advances.
Tick ==
    /\ \E t \in Instants : t > now /\ now' = t
    /\ UNCHANGED <<dirVars, dry_run, pc, target_emails, readVars, deltaVars,
                   loopVars, result, histVars, run, rosterVars, driverVars,
                   log_store, run_ids, written>>

\* A run starts and draws its identifier (api.py line 95, app.py line 552).
StartRun(w) ==
    /\ w \notin DOMAIN run_ids
    /\ \E suffix \in RandomSuffixes :
         run_ids' = [x \in DOMAIN run_ids \cup {w} |->
                        IF x = w THEN make_sync_run_id(now, suffix) ELSE run_ids[x]]
    /\ UNCHANGED <<dirVars, dry_run, pc, target_emails, readVars, deltaVars,
                   loopVars, result, histVars, run, rosterVars, driverVars,
                   now, log_store, written>>

\* A run logs the outcome of a group it has not logged before.
WriterLogs(w, section, group_type, status) ==
    /\ w \in DOMAIN run_ids
    /\ Len(written) < MaxLogWrites
    /\ \A i \in DOMAIN written :
          ~(/\ written[i].entry.triggered_by = w
            /\ written[i].entry.section_id = section.sectionid
            /\ written[i].entry.group_type = group_type)
    /\ \E write_ok \in BOOLEAN :
         LET group_email == Section_get_group_name(section, GroupNameType(group_type))
             entry == SyncLogEntry(now, section, group_type, group_email, status,
                                   {}, {}, None, FALSE, w, run_ids[w])
         IN  /\ log_store' = log_sync(log_store, now, section, group_type,
                                      group_email, status, {}, {}, None, FALSE,
                                      w, run_ids[w], write_ok)
             /\ written' = IF write_ok
                           THEN Append(written, [name |-> LogFileName(entry),
                                                 entry |-> entry])
                           ELSE written
    /\ UNCHANGED <<dirVars, dry_run, pc, target_emails, readVars, deltaVars,
                   loopVars, result, histVars, run, rosterVars, driverVars,
                   now, run_ids>>

LogNext ==
    \/ Tick /\ UNCHANGED toolVars
    \/ \E w \in Writers : StartRun(w) /\ UNCHANGED toolVars
    \/ \E w \in Writers, g \in DOMAIN GroupTypes, status \in {SUCCESS, ERROR} :
          WriterLogs(w, SECTION_1, GroupTypes[g], status) /\ UNCHANGED toolVars

LogSpec == LogInit /\ [][LogNext]_vars

\* --------------------------------- one logger: log_sync and its queries
\* _send_error_notification: the notification is sent, or there is no
\* address or notifier configured, or sending raises, which is swallowed.
MailOutcomes == {"sent", "not_configured", "raises"}

send_error_notification(mail) == [raised |-> FALSE, sent |-> mail = "sent"]

\* log_sync sending a notification for every ERROR entry.
log_sync_call_NotifiesEveryError(status, dry, cloud, write_ok, mail) ==
    [status |-> status, raised |-> FALSE, wrote |-> write_ok,
     attempted |-> status = ERROR,
     sent |-> status = ERROR /\ send_error_notification(mail).sent]

\* How a call of log_sync goes (lines 116-124): the write, whose failure is
\* swallowed, and the notification when one is due.
log_sync_call(status, dry, cloud, write_ok, mail) ==
    LET due == status = ERROR /\ ~dry /\ cloud
    IN  [status |-> status,
         raised |-> send_error_notification(mail).raised,
         wrote |-> write_ok, attempted |-> due,
         sent |-> due /\ send_error_notification(mail).sent]

\* An object of the store that json.loads or SyncLogEntry(**data) refuses.
Unparsable == [garbage |-> TRUE]

Parsable(object) == object # Unparsable

Reverse(seq) == [i \in DOMAIN seq |-> seq[Len(seq) + 1 - i]]

\* seq[:n]
Take(seq, n) == SubSeq(seq, 1, IF n < Len(seq) THEN n ELSE Len(seq))

\* The loop over the chosen names: every object that parses, in order.
ParsedLogs(store, names) ==
    SelectSeq([i \in DOMAIN names |-> store[names[i]]], Parsable)

\* _get_logs_from_cloud_storage: list_blobs(prefix, max_results=limit) hands
\* out the first limit names in the order of the names.
get_logs_from_cloud_storage(store, limit, listing_ok) ==
    IF ~listing_ok THEN <<>>
    ELSE LET blobs == Take(sorted(DOMAIN store), limit)
         IN  ParsedLogs(store, Take(Reverse(sorted(Range(blobs))), limit))

\* _get_logs_from_local_files
get_logs_from_local_files(store, limit, listing_ok) ==
    IF ~listing_ok THEN <<>>
    ELSE LET files == Reverse(sorted(DOMAIN store))
         IN  ParsedLogs(store, Take(files, limit))

\* SyncLogger.get_recent_logs
get_recent_logs(store, limit, cloud, listing_ok) ==
    IF cloud THEN get_logs_from_cloud_storage(store, limit, listing_ok)
    ELSE get_logs_from_local_files(store, limit, listing_ok)

QueryLimits == {1, 2}

LoggerInit ==
    /\ group_exists = TRUE
    /\ directory = {}
    /\ dry_run \in BOOLEAN
    /\ ManagerAtRest
    /\ today = BatchToday
    /\ RosterAtRest
    /\ LogAtRest
    /\ DriverAtRest
    /\ ConfigAtRest
    /\ use_cloud \in BOOLEAN
    /\ LoggerAtRest

\* log_sync is called for a group of SECTION_1.
CallLogSync(group_type, status) ==
    /\ Len(written) < MaxLogWrites
    /\ \E write_ok \in BOOLEAN, mail \in MailOutcomes :
         LET group_email == Section_get_group_name(SECTION_1,
                                                   GroupNameType(group_type))
             entry == SyncLogEntry(now, SECTION_1, group_type, group_email,
                                   status, {}, {}, None, dry_run, "manual", None)
         IN  /\ log_store' = log_sync(log_store, now, SECTION_1, group_type,
                                      group_email, status, {}, {}, None,
                                      dry_run, "manual", None, write_ok)
             /\ written' = IF write_ok
                           THEN Append(written, [name |-> LogFileName(entry),
                                                 entry |-> entry])
                           ELSE written
             /\ last_log' = log_sync_call(status, dry_run, use_cloud, write_ok, mail)
    /\ UNCHANGED <<dirVars, dry_run, pc, target_emails, readVars, deltaVars,
                   loopVars, result, histVars, run, rosterVars, driverVars,
                   now, run_ids, configVars, use_cloud, recent_logs>>

\* An object of the store is damaged.
CorruptObject(name) ==
    /\ name \in DOMAIN log_store
    /\ Parsable(log_store[name])
    /\ log_store' = [log_store EXCEPT ![name] = Unparsable]
    /\ UNCHANGED <<dirVars, dry_run, pc, target_emails, readVars, deltaVars,
                   loopVars, result, histVars, run, rosterVars, driverVars,
                   now, run_ids, written, toolVars>>

\* get_recent_logs(limit) is called.
GetRecentLogs(limit) ==
    /\ \E listing_ok \in BOOLEAN :
         recent_logs' = [limit |-> limit, listed |-> listing_ok,
                         logs |-> get_recent_logs(log_store, limit, use_cloud,
                                                  listing_ok)]
    /\ UNCHANGED <<dirVars, dry_run, pc, target_emails, readVars, deltaVars,
                   loopVars, result, histVars, run, batchVars, configVars,
                   use_cloud, last_log>>

LoggerNext ==
    \/ Tick /\ UNCHANGED toolVars
    \/ \E g \in DOMAIN GroupTypes, status \in {SUCCESS, ERROR} : CallLogSync(GroupTypes[g], status)
    \/ \E name \in DOMAIN log_store : CorruptObject(name)
    \/ \E limit \in QueryLimits : GetRecentLogs(limit)

LoggerSpec == LoggerInit /\ [][LoggerNext]_vars

\* ------------------------------------------------- classifying a roster
\* A roster is loaded and split into the three email sets on a given day
\* (api.py lines 136-141); date.today() is the variable today.
OTHER_PATROL == "Red Six"

Patrols == {LEADERS_PATROL, YOUNG_LEADERS_PATROL, OTHER_PATROL}

\* The days on which a run may start, and the birth dates of the rosters:
\* eighteenth birthdays on, before and after those days, a birthday on
\* 29 February and on 1 January, an adult and a child.
StartDays == {Date(2026, 6, 14), Date(2026, 2, 28), Date(2026, 12, 31)}

ClassifyDays == StartDays \cup {Tomorrow(d) : d \in StartDays}

BirthDates ==
    {Date(1980, 1, 1), Date(2008, 6, 14), Date(2008, 6, 15), Date(2008, 6, 16),
     Date(2008, 2, 29), Date(2009, 1, 1), Date(2016, 3, 3)}

\* What osm_calls.get_members may return: one or two members. The first
\* has one contact, whose second email field may be empty, malformed or an
\* alias form; the second has two contacts.
ClassifyRosters ==
    LET first  == {[RosterMember(patrol, dob, own, b_x) EXCEPT
                       !.contacts = <<[email_1 |-> b_x, email_2 |-> second_field]>>] :
                      patrol \in Patrols, dob \in BirthDates,
                      own \in {None, a_x, not_an_email},
                      second_field \in {None, not_an_email, M_GoogleMail}}
        second == {[RosterMember(patrol, dob, None, c_x) EXCEPT
                       !.contacts = <<[email_1 |-> c_x, email_2 |-> None],
                                      [email_1 |-> None, email_2 |-> m_googlemail]>>] :
                      patrol \in Patrols, dob \in BirthDates}
    IN  {<<m1>> : m1 \in first} \cup {<<m1, m2>> : m1 \in first, m2 \in second}

ClassifyInit ==
    /\ group_exists = TRUE
    /\ directory = {}
    /\ dry_run = FALSE
    /\ ManagerAtRest
    /\ today \in StartDays
    /\ RosterAtRest
    /\ LogAtRest
    /\ DriverAtRest
    /\ ConfigAtRest
    /\ use_cloud = FALSE
    /\ LoggerAtRest

\* perform_sync, lines 136-141, in the run of the day: the roster of the
\* section is loaded and the three email sets are taken from it.
ClassifySection(loaded) ==
    /\ section_members = <<>>
    /\ section_members' = loaded
    /\ leaders_emails' = Section_get_leaders_emails(loaded, today)
    /\ young_leaders_emails' = Section_get_young_leaders_emails(loaded, today)
    /\ parents_emails' = Section_get_parents_emails(loaded, today)
    /\ UNCHANGED <<dirVars, dry_run, pc, target_emails, readVars, deltaVars,
                   loopVars, result, histVars, run, today, logVars, driverVars>>

\* Midnight passes; the sets of the run of the day before are gone.
NextDay ==
    /\ Tomorrow(today) \in ClassifyDays
    /\ today' = Tomorrow(today)
    /\ section_members' = <<>>
    /\ leaders_emails' = {}
    /\ young_leaders_emails' = {}
    /\ parents_emails' = {}
    /\ UNCHANGED <<dirVars, dry_run, pc, target_emails, readVars, deltaVars,
                   loopVars, result, histVars, run, logVars, driverVars>>

ClassifyNext ==
    \/ \E loaded \in ClassifyRosters : ClassifySection(loaded) /\ UNCHANGED toolVars
    \/ NextDay /\ UNCHANGED toolVars

ClassifySpec == ClassifyInit /\ [][ClassifyNext]_vars

\* ------------------------------------------- src/src/config_manager.py
\* Python values of a configuration: str, int, None, list and dict.
PyStr(chars) == [kind |-> "str", value |-> chars]
PyInt(n)     == [kind |-> "int", number |-> n]
PyNone       == [kind |-> "none"]
PyList(seq)  == [kind |-> "list", elements |-> seq]
PyDict(rec)  == [kind |-> "dict", items |-> rec]

\* str.isalnum(): not empty and every character a letter or a digit.
isalnum(s) ==
    /\ s # <<>>
    /\ \A i \in DOMAIN s : s[i] \in Range(LOWER) \cup Range(UPPER) \cup Range(DIGIT)

Rejected(message, i) ==
    [raised |-> FALSE, is_valid |-> FALSE, error_message |-> message, index |-> i]

Accepted == [raised |-> FALSE, is_valid |-> TRUE, error_message |-> "None"]

\* An exception leaves validate_email_config.
Raised(exception) ==
    [raised |-> TRUE, is_valid |-> FALSE, error_message |-> exception]

\* validate_email_config, lines 157-170: the loop over config['sections']
\* from index i (counted from 1 here).
RECURSIVE ValidateSections(_, _)
ValidateSections(sections, i) ==
    IF i > Len(sections) THEN Accepted
    ELSE LET section == sections[i]
         IN  IF section.kind # "dict"
             THEN Rejected("must be a dictionary", i - 1)
             ELSE IF "id" \notin DOMAIN section.items
             THEN Rejected("missing 'id' field", i - 1)
             ELSE IF "email" \notin DOMAIN section.items
             THEN Rejected("missing 'email' field", i - 1)
             ELSE LET email_prefix == section.items.email
                  IN  IF email_prefix.kind # "str"
                      THEN Raised("AttributeError")
                      ELSE IF ~isalnum(replace(replace(email_prefix.value,
                                                       <<"-">>, <<>>),
                                               <<"_">>, <<>>))
                      THEN Rejected("contains invalid characters", i - 1)
                      ELSE ValidateSections(sections, i + 1)

\* ConfigManager.validate_email_config
validate_email_config(config) ==
    IF config.kind # "dict"
    THEN Rejected("Configuration must be a dictionary", 0)
    ELSE IF "sections" \notin DOMAIN config.items
    THEN Rejected("Configuration must have 'sections' key", 0)
    ELSE IF config.items.sections.kind # "list"
    THEN Rejected("'sections' must be a list", 0)
    ELSE ValidateSections(config.items.sections.elements, 1)

\* The prefixes a section entry may carry and the entries themselves.
t_m_1  == <<"t", "-", "m", "_", "1">>
hyphen == <<"-">>
a_dot_b == <<"a", ".", "b">>
tomyoung == <<"t", "o", "m", "y", "o", "u", "n", "g">>

Prefixes == {tom, max, tomyoung, t_m_1, hyphen, a_dot_b, <<>>}

SectionIds == {<<"1", "0", "1">>, <<"1", "0", "2">>}

SectionEntries ==
    {PyDict([id |-> PyStr(id), email |-> PyStr(prefix)]) :
        id \in SectionIds, prefix \in Prefixes}
    \cup {PyDict([id |-> PyStr(id), email |-> PyNone]) : id \in SectionIds}
    \cup {PyDict([id |-> PyStr(<<"1", "0", "1">>)]),
          PyDict([email |-> PyStr(tom)]),
          PyStr(tom)}

\* The configurations handed to the ConfigManager.
EmailConfigs ==
    {PyList(<<>>), PyDict([domain |-> PyStr(tom)]),
     PyDict([sections |-> PyStr(tom)])}
    \cup {PyDict([sections |-> PyList(seq)]) :
             seq \in {<<>>} \cup {<<e>> : e \in SectionEntries}
                     \cup {<<e1, e2>> : e1 \in SectionEntries, e2 \in SectionEntries}}

\* osm_calls.get_sections(): the sections of the roster source, no prefix set.
OsmSections ==
    <<[SECTION_1 EXCEPT !.email_prefix = <<>>],
      [SECTION_2 EXCEPT !.email_prefix = <<>>]>>

\* perform_sync, lines 110-121: the sections found in the configuration too,
\* each with the prefix of the first configuration entry of its id.
ValidSections(sections, config) ==
    LET entries == config.items.sections.elements
        Matches(section) ==
            {i \in DOMAIN entries : entries[i].items.id.value = section.sectionid}
        Configured(section) == Matches(section) # {}
        First(section) ==
            CHOOSE i \in Matches(section) : \A j \in Matches(section) : i <= j
        kept == SelectSeq(sections, Configured)
    IN  [k \in DOMAIN kept |->
            [kept[k] EXCEPT !.email_prefix =
                entries[First(kept[k])].items.email.value]]

\* perform_sync, lines 149-152, and sync_group, lines 348-349: the group
\* address a section's group of one kind is reconciled against.
GroupAddress(section, group_type) ==
    FullGroupEmail(Section_get_group_name(section, GroupNameType(group_type)))

ConfigInit ==
    /\ group_exists = TRUE
    /\ directory = {}
    /\ dry_run = FALSE
    /\ ManagerAtRest
    /\ today = BatchToday
    /\ RosterAtRest
    /\ LogAtRest
    /\ DriverAtRest
    /\ ConfigAtRest
    /\ use_cloud = FALSE
    /\ LoggerAtRest

\* validate_email_config is called on a configuration.
ValidateConfig(config) ==
    /\ email_config' = config
    /\ validation' = validate_email_config(config)
    /\ UNCHANGED <<dirVars, dry_run, pc, target_emails, readVars, deltaVars,
                   loopVars, result, histVars, run, batchVars, fileVars>>

ConfigNext ==
    \/ \E config \in EmailConfigs : ValidateConfig(config) /\ UNCHANGED loggerVars

ConfigSpec == ConfigInit /\ [][ConfigNext]_vars

\* ------------------------------------------------ email_config.yaml
\* yaml.dump and yaml.safe_load on the scalars of a configuration. A plain
\* scalar is resolved to null, bool, int, float or str by its text (YAML 1.1
\* as PyYAML implements it); a str whose plain text would resolve to another
\* type, or would not read back as written, is put in single quotes.
QUOTE == "'"

NULL_TEXT == <<"n", "u", "l", "l">>

UpperCase ==
    [c \in Range(ASCII) |->
        IF \E i \in DOMAIN LOWER : LOWER[i] = c
        THEN UPPER[CHOOSE i \in DOMAIN LOWER : LOWER[i] = c]
        ELSE c]

\* str.upper() and str.capitalize() on the characters of the model.
upper(s) == [i \in DOMAIN s |-> IF s[i] \in Range(ASCII) THEN UpperCase[s[i]] ELSE s[i]]

capitalize(s) == [i \in DOMAIN s |-> IF i = 1 THEN upper(s)[1] ELSE s[i]]

CaseForms(word) == {word, capitalize(word), upper(word)}

NullTexts == CaseForms(NULL_TEXT) \cup {<<"~">>, <<>>}

BoolTexts ==
    UNION {CaseForms(word) : word \in {<<"y", "e", "s">>, <<"n", "o">>,
                                       <<"t", "r", "u", "e">>,
                                       <<"f", "a", "l", "s", "e">>,
                                       <<"o", "n">>, <<"o", "f", "f">>}}

\* [-+]?(0|[1-9][0-9_]*) and [-+]?0[0-7_]+
IntText(text) ==
    LET body == IF text # <<>> /\ text[1] \in {"-", "+"} THEN Tail(text) ELSE text
    IN  /\ body # <<>>
        /\ \/ body = <<"0">>
           \/ /\ body[1] \in Range(DIGIT) \ {"0"}
              /\ \A i \in DOMAIN body : body[i] \in Range(DIGIT) \cup {"_"}
           \/ /\ body[1] = "0" /\ Len(body) > 1
              /\ \A i \in DOMAIN body :
                    body[i] \in {"0", "1", "2", "3", "4", "5", "6", "7", "_"}

\* [-+]?[0-9][0-9_]*\.[0-9_]*
FloatText(text) ==
    LET body == IF text # <<>> /\ text[1] \in {"-", "+"} THEN Tail(text) ELSE text
    IN  \E dot \in DOMAIN body :
           /\ body[dot] = "." /\ dot > 1
           /\ body[1] \in Range(DIGIT)
           /\ \A i \in DOMAIN body :
                 i # dot => body[i] \in Range(DIGIT) \cup {"_"}

\* The type the resolver gives a plain scalar.
yaml_resolve(text) ==
    IF text \in NullTexts THEN "null"
    ELSE IF text \in BoolTexts THEN "bool"
    ELSE IF IntText(text) THEN "int"
    ELSE IF FloatText(text) THEN "float"
    ELSE "str"

\* Emitter.analyze_scalar: a str that may not be written plain.
NotPlain(chars) ==
    \/ chars = <<>>
    \/ chars[1] \in {"-", "?", ":"} /\ (Len(chars) = 1 \/ chars[2] = " ")
    \/ chars[1] \in {"#", "&", "*", "!", "|", ">", "%", "@", QUOTE,
                     ",", "[", "]", "{", "}", " "}
    \/ chars[Len(chars)] = " "
    \/ \E i \in DOMAIN chars : chars[i] \in {",", "[", "]", "{", "}"}
    \/ \E i \in 1..(Len(chars) - 1) :
          \/ chars[i] = ":" /\ chars[i + 1] = " "
          \/ chars[i] = " " /\ chars[i + 1] = "#"

\* The digits of a natural number and the number they denote.
RECURSIVE DecimalText(_)
DecimalText(n) ==
    IF n < 10 THEN <<DIGIT[n + 1]>>
    ELSE DecimalText(n \div 10) \o <<DIGIT[(n % 10) + 1]>>

DigitValue(c) == (CHOOSE i \in DOMAIN DIGIT : DIGIT[i] = c) - 1

RECURSIVE NumberOf(_, _)
NumberOf(digits, base) ==
    IF digits = <<>> THEN 0
    ELSE NumberOf(SubSeq(digits, 1, Len(digits) - 1), base) * base
         + DigitValue(digits[Len(digits)])

\* int() of a plain scalar the resolver took for an int.
IntValue(text) ==
    LET body   == IF text[1] \in {"-", "+"} THEN Tail(text) ELSE text
        digits == SelectSeq(body, LAMBDA c : c # "_")
        n      == IF Len(body) > 1 /\ body[1] = "0"
                  THEN NumberOf(digits, 8) ELSE NumberOf(digits, 10)
    IN  IF text[1] = "-" THEN 0 - n ELSE n

PyBool(b)      == [kind |-> "bool", truth |-> b]
PyFloat(chars) == [kind |-> "float", text |-> chars]

\* yaml.dump writing every str plain.
yaml_dump_scalar_NeverQuotes(value) ==
    IF value.kind = "none" THEN NULL_TEXT
    ELSE IF value.kind = "int" THEN DecimalText(value.number)
    ELSE IF value.kind = "bool"
    THEN (IF value.truth THEN <<"t", "r", "u", "e">> ELSE <<"f", "a", "l", "s", "e">>)
    ELSE IF value.kind = "float" THEN value.text
    ELSE value.value

\* yaml.dump of a scalar of a configuration.
yaml_dump_scalar(value) ==
    IF value.kind = "none" THEN NULL_TEXT
    ELSE IF value.kind = "int" THEN DecimalText(value.number)
    ELSE IF value.kind = "bool"
    THEN (IF value.truth THEN <<"t", "r", "u", "e">> ELSE <<"f", "a", "l", "s", "e">>)
    ELSE IF value.kind = "float" THEN value.text
    ELSE IF NotPlain(value.value) \/ yaml_resolve(value.value) # "str"
    THEN <<QUOTE>> \o value.value \o <<QUOTE>>
    ELSE value.value

\* yaml.safe_load of a scalar.
yaml_load_scalar(text) ==
    IF text # <<>> /\ text[1] = QUOTE
    THEN PyStr(SubSeq(text, 2, Len(text) - 1))
    ELSE LET type == yaml_resolve(text)
         IN  IF type = "null" THEN PyNone
             ELSE IF type = "bool"
             THEN PyBool(lower(text) \in {<<"y", "e", "s">>, <<"t", "r", "u", "e">>,
                                          <<"o", "n">>})
             ELSE IF type = "int" THEN PyInt(IntValue(text))
             ELSE IF type = "float" THEN PyFloat(text)
             ELSE PyStr(text)

\* yaml.dump(config, default_flow_style=False, sort_keys=False) of a
\* configuration {'sections': [{'id': ..., 'email': ...}, ...]}: the
\* document, one block of two scalars for each section.
yaml_dump(config) ==
    [sections |->
        [i \in DOMAIN config.items.sections.elements |->
            [id    |-> yaml_dump_scalar(config.items.sections.elements[i].items.id),
             email |-> yaml_dump_scalar(config.items.sections.elements[i].items.email)]]]

\* yaml.safe_load of such a document.
yaml_safe_load(document) ==
    PyDict([sections |->
        PyList([i \in DOMAIN document.sections |->
            PyDict([id    |-> yaml_load_scalar(document.sections[i].id),
                    email |-> yaml_load_scalar(document.sections[i].email)])])])

\* The configurations kept in the file: ids written as str or as int, and
\* prefixes that look like a number, a bool or null when written plain.
no_text == <<"n", "o">>
seven   == <<"0", "0", "7">>
id_101  == <<"1", "0", "1">>
id_102  == <<"1", "0", "2">>
id_99999 == <<"9", "9", "9", "9", "9">>

FirstEntries ==
    {PyDict([id |-> id, email |-> email]) :
        id \in {PyStr(id_101), PyInt(101)},
        email \in {PyStr(tom), PyStr(t_m_1), PyStr(hyphen), PyStr(<<>>),
                   PyStr(no_text), PyStr(NULL_TEXT), PyStr(seven), PyNone}}

SecondEntries ==
    {PyDict([id |-> PyStr(id), email |-> PyStr(email)]) :
        id \in {id_102, id_99999}, email \in {max, no_text}}

StoredConfigs ==
    {PyDict([sections |-> PyList(seq)]) :
        seq \in {<<>>} \cup {<<e>> : e \in FirstEntries}
                \cup {<<e1, e2>> : e1 \in FirstEntries, e2 \in SecondEntries}}

MaxSaves == 2

FileInit ==
    /\ group_exists = TRUE
    /\ directory = {}
    /\ dry_run = FALSE
    /\ ManagerAtRest
    /\ today = BatchToday
    /\ RosterAtRest
    /\ LogAtRest
    /\ DriverAtRest
    /\ email_config = [kind |-> "none"]
    /\ validation = NotCalled
    /\ \E config \in StoredConfigs :
          /\ config_file = yaml_dump(config)
          /\ original_config = yaml_safe_load(config_file)
    /\ loaded_config = [kind |-> "none"]
    /\ saved_configs = <<>>
    /\ use_cloud = FALSE
    /\ LoggerAtRest

\* save_email_config(config) returns; a save that raises leaves the file.
save_email_config(config) ==
    /\ Len(saved_configs) < MaxSaves
    /\ \E write_ok \in BOOLEAN :
         /\ config_file' = IF write_ok THEN yaml_dump(config) ELSE config_file
         /\ saved_configs' = IF write_ok THEN Append(saved_configs, config)
                             ELSE saved_configs
    /\ loaded_config' = [kind |-> "none"]
    /\ UNCHANGED <<dirVars, dry_run, pc, target_emails, readVars, deltaVars,
                   loopVars, result, histVars, run, batchVars, email_config,
                   validation, original_config, loggerVars>>

\* The configuration of the test: the original with one section added.
WithTestSection(config) ==
    PyDict([sections |->
        PyList(Append(config.items.sections.elements,
                      PyDict([id |-> PyStr(id_99999), email |-> PyStr(max)])))])

\* load_email_config()
load_email_config ==
    /\ loaded_config' = yaml_safe_load(config_file)
    /\ UNCHANGED <<dirVars, dry_run, pc, target_emails, readVars, deltaVars,
                   loopVars, result, histVars, run, batchVars, email_config,
                   validation, config_file, original_config, saved_configs,
                   loggerVars>>

FileNext ==
    \/ \E config \in {original_config, WithTestSection(original_config)} : save_email_config(config)
    \/ load_email_config

FileSpec == FileInit /\ [][FileNext]_vars

\* ------------------------------------------------- claims about the batch
\* The driver has left its loop over the sections, by its end or by an
\* exception.
BatchEnded == batch_pc \in {"done", "aborted"}

\* The driver reached its loop over the sections.
LoopEntered == section_i >= 1

\* The entries the log store holds.
StoredEntries == {log_store[n] : n \in DOMAIN log_store}

\* The stored entries of the driver's run for a group.
RunEntries(sectionid, group_type) ==
    {e \in StoredEntries : /\ e.sync_run_id = sync_run_id
                           /\ e.section_id = sectionid
                           /\ e.group_type = group_type}

\* Every call of log_sync so far was written to the store.
EveryWriteSucceeded == Len(written) = now

\* C11: in a batch, a failing section or group is caught, gets an ERROR
\* audit entry and an entry of the error list, and every remaining group of
\* that section and of the later sections is still attempted: a batch that
\* entered its loop ends with every section reached, all three groups
\* attempted of each section that had one attempted, no 'failed' status, and
\* one error per ERROR entry.
C11_FailureDoesNotAbortBatch ==
    (BatchEnded /\ LoopEntered /\ EveryWriteSucceeded) =>
        /\ batch_pc = "done"
        /\ section_i = Len(valid_sections) + 1
        /\ \A k \in DOMAIN valid_sections :
              (\E g \in DOMAIN GroupTypes :
                  <<valid_sections[k].sectionid, GroupTypes[g]>> \in attempted)
              => (\A g \in DOMAIN GroupTypes :
                  <<valid_sections[k].sectionid, GroupTypes[g]>> \in attempted)
        /\ driver = "api" =>
              /\ results.status # "failed"
              /\ Len(results.errors) =
                    Cardinality({e \in StoredEntries : e.status = ERROR})

\* C12: perform_sync returns 'success' exactly when the error list is empty,
\* 'completed_with_errors' when groups failed but every section was visited,
\* and 'failed' only when no group was reconciled or changed in the run.
C12_StatusMatchesOutcome ==
    (driver = "api" /\ batch_pc = "done") =>
        /\ results.status = "success" <=> results.errors = <<>>
        /\ results.status = "completed_with_errors" =>
              section_i = Len(valid_sections) + 1
        /\ results.status = "failed" =>
              results.groups_synced = 0 /\ applied = {}

\* The configuration could not be loaded, or the manager could not
\* authenticate: construction raised, or the signer is refused.
ConfigOrAuthFailed ==
    \/ signer = "refused"
    \/ /\ results.status = "failed"
       /\ \E i \in DOMAIN results.errors :
             results.errors[i] \in {"config_error", "auth_error"}

\* C13: when the configuration cannot be loaded or authentication to the
\* directory fails, perform_sync returns 'failed' with groups_synced = 0 and
\* sections_synced = 0, no add or remove call made and no audit entry written.
C13_ConfigAuthFailureIsFatal ==
    (driver = "api" /\ batch_pc = "done" /\ ConfigOrAuthFailed) =>
        /\ results.status = "failed"
        /\ results.groups_synced = 0
        /\ results.sections_synced = 0
        /\ applied = {}
        /\ written = <<>>

\* C14: one invocation of the driver persists exactly one audit entry for
\* each group it attempted, and the entries carrying its run identifier are
\* entries of attempted groups with its dry_run flag and triggered_by tag.
C14_OneEntryPerAttemptedGroup ==
    BatchEnded =>
        /\ \A g \in attempted : Cardinality(RunEntries(g[1], g[2])) = 1
        /\ \A e \in StoredEntries : e.sync_run_id = sync_run_id =>
              /\ <<e.section_id, e.group_type>> \in attempted
              /\ e.dry_run = dry_run
              /\ e.triggered_by = triggered_by

\* C15: every address added to or removed from a group during a Live batch
\* is in added_emails or removed_emails of an entry of the run for that group.
C15_EveryChangeAudited ==
    (~dry_run /\ EveryWriteSucceeded) =>
        \A a \in applied : \E e \in RunEntries(a[1], a[2]) :
            \/ a[3] = "add" /\ a[4] \in Range(e.added_emails)
            \/ a[3] = "remove" /\ a[4] \in Range(e.removed_emails)

\* C16: log_sync only ever adds a record: every record written so far, by
\* either of two runs writing at the same time, is still in the store under
\* its own name, unchanged, and no two records were given the same name.
C16_LogIsAppendOnly ==
    /\ \A i \in DOMAIN written :
          /\ written[i].name \in DOMAIN log_store
          /\ log_store[written[i].name] = written[i].entry
    /\ \A i \in DOMAIN written : \A j \in DOMAIN written :
          i # j => written[i].name # written[j].name

\* ------------------------------------- claims about one sync_group call
\* C17: the dict a dry-run sync_group returns carries the whole computed
\* to_add and to_remove, sorted, and its counts of adds and removes that
\* succeeded, added_count and removed_count, are zero.
C17_PreviewReportsNoSuccess ==
    (pc = "returned" /\ dry_run) =>
        /\ result.added_emails = sorted(to_add)
        /\ result.removed_emails = sorted(to_remove)
        /\ result.added_count = 0
        /\ result.removed_count = 0

\* The normalized addresses of the first k pages of the listing of dir.
FirstPages(dir, k) ==
    LET all == sorted(dir)
    IN  {NormalizeMember(all[i]) :
            i \in {j \in DOMAIN all : j <= k * PageSize}}

\* C18: while get_group_members is paging, members is the union of the
\* normalized addresses of every page received so far and a continuation
\* token is only held while pages remain; each further request moves to a
\* later page, so the read ends; and the set it returns is the union of
\* the normalized addresses of all pages of the listing.
C18_ReadsEveryPage ==
    /\ [](/\ pc = "list" =>
                /\ members = FirstPages(directory, page_token)
                /\ page_token * PageSize <= Cardinality(directory)
                /\ page_token > 0 => page_token * PageSize < Cardinality(directory)
          /\ (DeltaComputed /\ calls = {}) =>
                current_emails = DirectoryMembership)
    /\ [][(pc = "list" /\ pc' = "list") => page_token' > page_token]_vars

\* A read that needed a second page, the last one partial, has returned.
C18_Witness ==
    /\ DeltaComputed /\ calls = {}
    /\ Cardinality(directory) = PageSize + 1
    /\ Cardinality(current_emails) = PageSize + 1
    /\ last_call.fn = "get_group_members"

\* ------------------------------------------- claims about classification
\* d1 is d2 or an earlier day.
OnOrBefore(d1, d2) ==
    \/ d1.year < d2.year
    \/ d1.year = d2.year /\ d1.month < d2.month
    \/ d1.year = d2.year /\ d1.month = d2.month /\ d1.day <= d2.day

\* The number of birthdays a member has had by the day on_date, a birthday
\* on that very day included.
BirthdaysHad(member, on_date) ==
    Cardinality({y \in (member.date_of_birth.year + 1)..on_date.year :
        OnOrBefore(Date(y, member.date_of_birth.month, member.date_of_birth.day),
                   on_date)})

RosterMembers == Range(section_members)

CarriesLeaderRole(member) ==
    member.patrol = "Leaders" \/ member.patrol = "Young Leaders (YLs)"

AddressesOf(selected) ==
    UNION {Range(Member_get_contact_emails(member)) : member \in selected}

\* C19: the leaders set holds the addresses of exactly the members with a
\* leader patrol who are 18 or over, the young-leaders set those of exactly
\* the members with a leader patrol who are under 18, and the parents set
\* those of exactly the members without a leader patrol, whatever their
\* age; every member falls in exactly one of the three.
C19_Classification ==
    /\ leaders_emails = AddressesOf({member \in RosterMembers :
          CarriesLeaderRole(member) /\ BirthdaysHad(member, today) >= 18})
    /\ young_leaders_emails = AddressesOf({member \in RosterMembers :
          CarriesLeaderRole(member) /\ BirthdaysHad(member, today) < 18})
    /\ parents_emails = AddressesOf({member \in RosterMembers :
          ~CarriesLeaderRole(member)})
    /\ \A member \in RosterMembers :
          /\ Member_is_adult_leader(member, today)
                <=> (CarriesLeaderRole(member) /\ BirthdaysHad(member, today) >= 18)
          /\ Member_is_young_leader(member, today)
                <=> (CarriesLeaderRole(member) /\ BirthdaysHad(member, today) < 18)
          /\ ~Member_is_leader(member) <=> ~CarriesLeaderRole(member)

\* A member of the Young Leaders patrol who is over 18 is with the leaders
\* and an adult outside the leader patrols is with the parents.
C19_Witness ==
    /\ Len(section_members) = 2
    /\ section_members[1].patrol = YOUNG_LEADERS_PATROL
    /\ section_members[1].date_of_birth = Date(1980, 1, 1)
    /\ section_members[1].member_email_1 = a_x
    /\ section_members[2].patrol = OTHER_PATROL
    /\ section_members[2].date_of_birth = Date(1980, 1, 1)
    /\ leaders_emails = {a_x, b_x}
    /\ young_leaders_emails = {}
    /\ parents_emails = {c_x, m_gmail}

\* The day of the member's eighteenth birthday.
EighteenthBirthday(member) ==
    Date(member.date_of_birth.year + 18, member.date_of_birth.month,
         member.date_of_birth.day)

\* C20: the age of a member is the difference of the calendar years, less
\* one when this year's birthday is still to come, a birthday today being
\* counted as had; a leader whose eighteenth birthday is today is an adult
\* leader and one whose eighteenth birthday is tomorrow is a young leader.
C20_AgeBoundary ==
    \A member \in RosterMembers :
        /\ Member_age_today(member, today) = BirthdaysHad(member, today)
        /\ (member.date_of_birth.month = today.month
              /\ member.date_of_birth.day = today.day)
              => Member_age_today(member, today)
                    = today.year - member.date_of_birth.year
        /\ (CarriesLeaderRole(member) /\ EighteenthBirthday(member) = today)
              => /\ Member_is_adult_leader(member, today)
                 /\ ~Member_is_young_leader(member, today)
                 /\ Range(Member_get_contact_emails(member)) \subseteq leaders_emails
        /\ (CarriesLeaderRole(member) /\ EighteenthBirthday(member) = Tomorrow(today))
              => /\ Member_is_young_leader(member, today)
                 /\ ~Member_is_adult_leader(member, today)
                 /\ Range(Member_get_contact_emails(member))
                       \subseteq young_leaders_emails

\* A roster with a leader who turns 18 today and one who turns 18 tomorrow.
C20_Witness ==
    /\ Len(section_members) = 2
    /\ today = Date(2026, 6, 15)
    /\ section_members[1].patrol = LEADERS_PATROL
    /\ section_members[1].date_of_birth = Date(2008, 6, 15)
    /\ section_members[2].patrol = LEADERS_PATROL
    /\ section_members[2].date_of_birth = Date(2008, 6, 16)
    /\ b_x \in leaders_emails
    /\ c_x \in young_leaders_emails

\* The shape of an email address: one "@" with something before it, and
\* after it a host of letters, digits and hyphens up to its first ".",
\* followed by at least one more character.
WellFormed(s) ==
    LET ats == {i \in DOMAIN s : s[i] = "@"}
    IN  /\ Cardinality(ats) = 1
        /\ LET at   == CHOOSE i \in ats : TRUE
               dots == {j \in DOMAIN s : j > at /\ s[j] = "."}
           IN  /\ at > 1
               /\ dots # {}
               /\ LET dot == CHOOSE j \in dots : \A k \in dots : j <= k
                  IN  /\ dot > at + 1
                      /\ dot < Len(s)
                      /\ \A k \in 1..(at - 1) :
                            s[k] \in Range(LOWER) \cup Range(UPPER)
                                     \cup Range(DIGIT) \cup {"_", ".", "+", "-"}
                      /\ \A k \in (at + 1)..(dot - 1) :
                            s[k] \in Range(LOWER) \cup Range(UPPER)
                                     \cup Range(DIGIT) \cup {"-"}
                      /\ \A k \in (dot + 1)..Len(s) :
                            s[k] \in Range(LOWER) \cup Range(UPPER)
                                     \cup Range(DIGIT) \cup {"-", "."}

\* Every value an email field of the member or of one of its contacts holds.
EmailFields(member) ==
    {member.member_email_1, member.member_email_2}
        \cup UNION {{member.contacts[i].email_1, member.contacts[i].email_2} :
                       i \in DOMAIN member.contacts}

\* The well-formed addresses of a set of members, in the form they are
\* sent to the directory.
WellFormedAddresses(selected) ==
    UNION {{DirCanon(e) : e \in {f \in EmailFields(member) : WellFormed(f)}} :
              member \in selected}

\* C21: each target set of a section is the union, over the members of its
\* class, of the well-formed addresses among the member's own email fields
\* and the email fields of all its contacts; a value that fails the shape
\* check is in no target set.
C21_TargetSets ==
    /\ leaders_emails = WellFormedAddresses({member \in RosterMembers :
          Member_is_adult_leader(member, today)})
    /\ young_leaders_emails = WellFormedAddresses({member \in RosterMembers :
          Member_is_young_leader(member, today)})
    /\ parents_emails = WellFormedAddresses({member \in RosterMembers :
          ~Member_is_leader(member)})
    /\ \A e \in leaders_emails \cup young_leaders_emails \cup parents_emails :
          WellFormed(e)
    /\ not_an_email \notin leaders_emails \cup young_leaders_emails \cup parents_emails

\* A leader whose own field and whose contact's second field hold
\* "not-an-email" has been classified, with a second member with two contacts.
C21_Witness ==
    /\ Len(section_members) = 2
    /\ section_members[1].member_email_1 = not_an_email
    /\ section_members[1].contacts[1].email_2 = not_an_email
    /\ Member_is_adult_leader(section_members[1], today)
    /\ ~Member_is_leader(section_members[2])
    /\ leaders_emails = {b_x}
    /\ parents_emails = {c_x, m_gmail}

\* ----------------------------------------------- claims about the totals
\* The sum of f(entry) over the SUCCESS entries among the first n written.
RECURSIVE SumSuccess(_, _)
SumSuccess(n, field) ==
    IF n = 0 THEN 0
    ELSE SumSuccess(n - 1, field)
         + (IF written[n].entry.status # SUCCESS THEN 0
            ELSE IF field = "added" THEN written[n].entry.members_added
            ELSE IF field = "removed" THEN written[n].entry.members_removed
            ELSE 1)

\* The sections of which each of the three groups was attempted.
SectionsProcessed ==
    {k \in DOMAIN valid_sections :
        \A g \in DOMAIN GroupTypes :
            <<valid_sections[k].sectionid, GroupTypes[g]>> \in attempted}

\* C22: when perform_sync ends without the status 'failed', total_added and
\* total_removed are the sums of the numbers of addresses added and removed
\* in the groups that were reconciled without an error, groups_synced is the
\* number of those groups, sections_synced the number of sections whose
\* three groups were processed, and groups_synced plus the number of errors
\* is three times sections_synced.
C22_TotalsAddUp ==
    (driver = "api" /\ batch_pc = "done" /\ results.status # "failed"
        /\ EveryWriteSucceeded) =>
        /\ results.total_added = SumSuccess(Len(written), "added")
        /\ results.total_removed = SumSuccess(Len(written), "removed")
        /\ results.groups_synced = SumSuccess(Len(written), "groups")
        /\ results.sections_synced = Cardinality(SectionsProcessed)
        /\ results.groups_synced + Len(results.errors)
              = 3 * results.sections_synced

\* A Live batch over two sections ended with one group in error and with
\* addresses added and removed in the others.
C22_Witness ==
    /\ driver = "api" /\ batch_pc = "done" /\ ~dry_run
    /\ EveryWriteSucceeded
    /\ Len(valid_sections) = 2
    /\ results.status = "completed_with_errors"
    /\ Len(results.errors) = 1
    /\ results.groups_synced = 5
    /\ results.sections_synced = 2
    /\ results.total_added > 1
    /\ results.total_removed > 0

\* ------------------------------------------ claims about the configuration
\* A prefix that is not empty and made of letters, digits, "-" and "_".
PrefixOK(value) ==
    /\ value.kind = "str"
    /\ value.value # <<>>
    /\ \A i \in DOMAIN value.value :
          value.value[i] \in Range(LOWER) \cup Range(UPPER) \cup Range(DIGIT)
                             \cup {"-", "_"}

\* A dictionary whose 'sections' is a list of dictionaries with an 'id' and
\* a good 'email' prefix.
WellFormedConfig(config) ==
    /\ config.kind = "dict"
    /\ "sections" \in DOMAIN config.items
    /\ config.items.sections.kind = "list"
    /\ \A i \in DOMAIN config.items.sections.elements :
          LET section == config.items.sections.elements[i]
          IN  /\ section.kind = "dict"
              /\ {"id", "email"} \subseteq DOMAIN section.items
              /\ PrefixOK(section.items.email)

\* C23: validate_email_config returns (True, None) exactly for the
\* well-formed configurations, and for every other configuration it returns
\* False with an error message.
C23_ValidationIsExact ==
    email_config # PyNone =>
        /\ ~validation.raised
        /\ validation.is_valid <=> WellFormedConfig(email_config)
        /\ ~validation.is_valid => validation.error_message # "None"

\* --------------------------------------------- claims about the logger
\* The time at which an entry was logged.
LoggedAt(entry) ==
    CHOOSE t \in Instants \cup {0} : isoformat(utcnow(t)) \o <<"Z">> = entry.timestamp

\* The entries a store holds.
EntriesIn(store) == {store[n] : n \in {x \in DOMAIN store : Parsable(store[x])}}

\* What a query of the store is to return: at most limit entries, the newest
\* first, none of them older than an entry left out, and all of them when
\* there are fewer than limit.
RecentLogsOf(store, query) ==
    /\ Len(query.logs) <= query.limit
    /\ Range(query.logs) \subseteq EntriesIn(store)
    /\ \A i \in DOMAIN query.logs : \A j \in DOMAIN query.logs :
          i < j => LoggedAt(query.logs[i]) >= LoggedAt(query.logs[j])
    /\ (\A n \in DOMAIN store : Parsable(store[n])) =>
          /\ \A e \in EntriesIn(store) \ Range(query.logs) :
                \A i \in DOMAIN query.logs : LoggedAt(query.logs[i]) >= LoggedAt(e)
          /\ Len(query.logs) < query.limit
                => Range(query.logs) = EntriesIn(store)

\* C24: a call of get_recent_logs(limit) whose listing of the store works
\* returns at most limit entries, newest first, which are the limit most
\* recent entries of the store, with either back end; objects that do not
\* parse are left out.
C24_RecentLogs ==
    [][(recent_logs' # recent_logs /\ recent_logs'.listed)
          => RecentLogsOf(log_store, recent_logs')]_vars

C26_SaveThenLoad ==
    /\ (loaded_config # PyNone /\ saved_configs # <<>>) =>
          /\ loaded_config = saved_configs[Len(saved_configs)]
          /\ Len(loaded_config.items.sections.elements)
                = Len(saved_configs[Len(saved_configs)].items.sections.elements)
    /\ (saved_configs # <<>>
          /\ saved_configs[Len(saved_configs)] = original_config) =>
          /\ config_file = yaml_dump(original_config)
          /\ loaded_config # PyNone => loaded_config = original_config

\* The test's scenario: the original with a section added was saved, then
\* the original was saved again and loaded; its first section has an id
\* and a prefix made of digits.
C26_Witness ==
    /\ Len(saved_configs) = 2
    /\ saved_configs[1] = WithTestSection(original_config)
    /\ saved_configs[2] = original_config
    /\ loaded_config = original_config
    /\ Len(original_config.items.sections.elements) = 2
    /\ original_config.items.sections.elements[1].items.id = PyStr(id_101)
    /\ original_config.items.sections.elements[1].items.email = PyStr(seven)


\* ---------------------------------------------------------------------------
\* Claims about the changes one sync_group call makes (C27).
\* ---------------------------------------------------------------------------

\* The insert and the delete requests the current call has sent.
InsertsSent == {c[2] : c \in {d \in calls : d[1] = "insert"}}
DeletesSent == {c[2] : c \in {d \in calls : d[1] = "delete"}}

\* A Live sync_group call that has read the membership.
LiveCallUnderWay ==
    /\ ~dry_run
    /\ \/ DeltaComputed
       \/ pc = "raised" /\ calls # {}

\* C27: a Live sync_group call sends inserts only for addresses of
\* target - current and deletes only for addresses of current - target, each
\* address at most once (an iteration of a loop takes an address the loop has
\* not reached yet, sends one request for it and never comes back to it; an
\* exception out of a request ends the call with the address still pending),
\* every add is attempted before any remove, and an address of both target
\* and current is never added or removed and is a member in every state of
\* the call.
C27_MinimalChanges ==
    /\ [](LiveCallUnderWay =>
            /\ InsertsSent \subseteq target_emails \ current_emails
            /\ DeletesSent \subseteq current_emails \ target_emails
            /\ pc # "raised" => /\ InsertsSent \cap pending_add = {}
                                /\ DeletesSent \cap pending_remove = {}
            /\ (pc = "remove" \/ DeletesSent # {}) =>
                   /\ pending_add = {}
                   /\ InsertsSent = target_emails \ current_emails
            /\ \A t \in target_emails \cap current_emails :
                   /\ t \notin InsertsSent \cup DeletesSent
                   /\ t \in DirectoryMembership)
    /\ [][(~dry_run /\ pc = "add" /\ pc' # "idle") =>
            /\ last_call'.email \in pending_add
            /\ calls' = calls \cup {<<"insert", last_call'.email>>}
            /\ pc' # "raised" => pending_add' = pending_add \ {last_call'.email}
            /\ pending_remove' = pending_remove]_vars
    /\ [][(~dry_run /\ pc = "remove" /\ pc' # "idle") =>
            /\ last_call'.email \in pending_remove
            /\ calls' = calls \cup {<<"delete", last_call'.email>>}
            /\ pc' # "raised" => pending_remove' = pending_remove \ {last_call'.email}
            /\ pending_add' = pending_add]_vars

C27_Witness ==
    /\ pc = "returned" /\ ~dry_run
    /\ InsertsSent # {} /\ DeletesSent # {}
    /\ InsertsSent = to_add /\ DeletesSent = to_remove
    /\ target_emails \cap current_emails # {}
    /\ target_emails \cap current_emails \subseteq DirectoryMembership


\* ------------------------------------ claims about the group addresses
\* C28: for a configuration validate_email_config accepts, distinct
\* (section, group kind) pairs of the batch are reconciled against distinct
\* group addresses.
C28_DistinctGroupAddresses ==
    (email_config # PyNone /\ ~validation.raised /\ validation.is_valid) =>
        LET sections == ValidSections(OsmSections, email_config)
        IN  \A k1 \in DOMAIN sections, k2 \in DOMAIN sections :
              \A g1 \in DOMAIN GroupTypes, g2 \in DOMAIN GroupTypes :
                <<k1, g1>> # <<k2, g2>> =>
                    GroupAddress(sections[k1], GroupTypes[g1])
                        # GroupAddress(sections[k2], GroupTypes[g2])


\* ------------------------------------- claims about the classes of a member
\* The classes of which the member is on the day, by the three properties
\* the getters of Section select with.
ClassesOf(member, today_date) ==
    {c \in {"leaders", "young_leaders", "parents"} :
        \/ c = "leaders" /\ Member_is_adult_leader(member, today_date)
        \/ c = "young_leaders" /\ Member_is_young_leader(member, today_date)
        \/ c = "parents" /\ ~Member_is_leader(member)}

\* What a member alone contributes to the three target sets.
Contribution(member, today_date) ==
    [leaders       |-> Section_get_leaders_emails(<<member>>, today_date),
     young_leaders |-> Section_get_young_leaders_emails(<<member>>, today_date),
     parents       |-> Section_get_parents_emails(<<member>>, today_date)]

\* The target sets of the section as the run computed them.
TargetSets ==
    [leaders       |-> leaders_emails,
     young_leaders |-> young_leaders_emails,
     parents       |-> parents_emails]

\* C29: on the day of the run every member of the section satisfies exactly
\* one of is_adult_leader, is_young_leader and not is_leader; the member's
\* addresses are contributed to the target set of that class, where the
\* section's set holds them, and the member contributes nothing to the other
\* two.
C29_ExactlyOneClass ==
    \A member \in Range(section_members) :
        /\ Cardinality(ClassesOf(member, today)) = 1
        /\ \A c \in {"leaders", "young_leaders", "parents"} :
              IF c \in ClassesOf(member, today)
              THEN /\ Contribution(member, today)[c]
                         = Range(Member_get_contact_emails(member))
                   /\ Contribution(member, today)[c] \subseteq TargetSets[c]
              ELSE Contribution(member, today)[c] = {}

\* A leader whose eighteenth birthday is the day of the run counts with the
\* adult leaders only, next to a member outside the leader patrols.
C29_Witness ==
    /\ Len(section_members) = 2
    /\ section_members[1].patrol = LEADERS_PATROL
    /\ EighteenthBirthday(section_members[1]) = today
    /\ ClassesOf(section_members[1], today) = {"leaders"}
    /\ ClassesOf(section_members[2], today) = {"parents"}
    /\ Range(Member_get_contact_emails(section_members[1])) # {}
    /\ leaders_emails = Range(Member_get_contact_emails(section_members[1]))
    /\ young_leaders_emails = {}
    /\ parents_emails = Range(Member_get_contact_emails(section_members[2]))


\* ------------------------------- claims about a section without a term
\* The sections of the run for which the roster source has no started term,
\* and the others.
WithoutTerm == {id \in DOMAIN osm_terms : ~osm_terms[id]}
WithTerm    == {id \in DOMAIN osm_terms : osm_terms[id]}

\* C30: when a configured section has no current term and nothing else goes
\* wrong, perform_sync skips it: the batch ends with status
\* completed_with_errors and one error string for the section, none of its
\* three groups is reconciled and no audit entry is written for it,
\* sections_synced counts the other sections only, and each of those has its
\* three groups reconciled.
C30_SkipsSectionWithoutTerm ==
    (driver = "api" /\ batch_pc = "done" /\ faults_left = MaxFaults
        /\ WithoutTerm # {}) =>
        /\ results.status = "completed_with_errors"
        /\ Len(results.errors) = Cardinality(WithoutTerm)
        /\ results.sections_synced = Cardinality(WithTerm)
        /\ \A g \in DOMAIN GroupTypes :
              /\ \A id \in WithoutTerm : <<id, GroupTypes[g]>> \notin attempted
              /\ \A id \in WithTerm : <<id, GroupTypes[g]>> \in attempted
        /\ \A n \in DOMAIN log_store : log_store[n].section_id \notin WithoutTerm

==========================================================================
